---- MODULE Spec2Model ----
(***************************************************************************)
(* Quest Chronicles: the character record and the operations of            *)
(* character_manager.py, quest_handler.py, inventory_system.py and         *)
(* combat_system.py that mutate it.                                        *)
(*                                                                         *)
(* A Python function f(character, ...) is an operator f(c, ...) from the   *)
(* character dict before the call to an outcome [c, raised, ret]: the dict *)
(* as the call leaves it (dicts are mutated in place, so a raise keeps the *)
(* mutations made before it), the exception raised ("none" on a normal     *)
(* return) and the value returned.  An action applies one such operator to *)
(* the variable character and records the call in result.                  *)
(*                                                                         *)
(* get_quest_prerequisite_chain loops for as long as the catalog's links   *)
(* lead on, so it is stepped one loop iteration at a time; walk holds the  *)
(* call's arguments, its locals and its position.                          *)
(*                                                                         *)
(* A SimpleBattle runs turn by turn: battle holds the object's attributes, *)
(* the enemy dict, the position of start_battle and what the last turn     *)
(* wrote to the battle log; the character it fights with is character.     *)
(*                                                                         *)
(* all_quests and all_items are the two catalogs of main.py, empty until   *)
(* load_quests and load_items of game_data.py have filled them.            *)
(***************************************************************************)
EXTENDS Integers, Sequences, FiniteSets, TLC

VARIABLES character, result, ops, walk, battle, all_quests, all_items

vars == <<character, result, ops, walk, battle, all_quests, all_items>>

(* ------------------------------------------------------------------ *)
(* Python values                                                       *)
(* ------------------------------------------------------------------ *)

\* Python's None.
None == "None"

\* dict.get(key, default)
Get(d, key, default) == IF key \in DOMAIN d THEN d[key] ELSE default

\* d[key] = value (adds the key when it is missing)
Set(d, key, value) ==
    [k \in (DOMAIN d) \cup {key} |-> IF k = key THEN value ELSE d[k]]

\* bool(x) for an identifier or None: None and the empty string are falsy.
Truthy(x) == x # None /\ x # ""

\* x in list
In(x, list) == \E i \in 1..Len(list) : list[i] = x

\* list.remove(x): drops the first occurrence of x.  Every call in the
\* source is guarded by a membership test; where x is missing (Python raises
\* ValueError) the list is returned as it is.
ListRemove(list, x) ==
    IF ~In(x, list) THEN list
    ELSE LET i == CHOOSE j \in 1..Len(list) :
                      list[j] = x /\ \A k \in 1..(j - 1) : list[k] # x
         IN  [k \in 1..(Len(list) - 1) |->
                 IF k < i THEN list[k] ELSE list[k + 1]]

Min(a, b) == IF a <= b THEN a ELSE b
Max(a, b) == IF a >= b THEN a ELSE b

\* The values a call returns, tagged with their Python type.
NoneValue == [type |-> "NoneType"]
Bool(b) == [type |-> "bool", bool |-> b]
Num(n) == [type |-> "int", int |-> n]
Str(s) == [type |-> "str", str |-> s]

\* A str whose characters the code looks at, and a dict.
Text(chars) == [type |-> "str", chars |-> chars]
Dict(d) == [type |-> "dict", dict |-> d]

\* Outcomes of a call.
Ok(c, ret)     == [c |-> c, raised |-> "none", ret |-> ret]
Raise(c, exc)  == [c |-> c, raised |-> exc, ret |-> NoneValue]

(* ------------------------------------------------------------------ *)
(* character_manager.py                                                *)
(* ------------------------------------------------------------------ *)

CHARACTER_CLASSES ==
    [Warrior |-> [strength |-> 10, defense |-> 8, health |-> 100],
     Mage    |-> [strength |-> 4,  defense |-> 5, health |-> 70, mana |-> 100],
     Rogue   |-> [strength |-> 7,  defense |-> 6, health |-> 80],
     Cleric  |-> [strength |-> 5,  defense |-> 6, health |-> 80, mana |-> 80]]

starting_gold_by_class ==
    [Warrior |-> 50, Mage |-> 100, Rogue |-> 40, Cleric |-> 60]

\* create_character(name, char_class) for a valid class; the fields no
\* modelled operation reads (name, equipment, equipped, _inventory_limit)
\* are left out.
create_character(char_class) ==
    LET base_stats == CHARACTER_CLASSES[char_class] IN
    [class            |-> char_class,
     level            |-> 1,
     experience       |-> 0,
     xp               |-> 0,
     gold             |-> starting_gold_by_class[char_class],
     strength         |-> base_stats.strength,
     defense          |-> base_stats.defense,
     health           |-> base_stats.health,
     max_health       |-> base_stats.health,
     magic            |-> Get(base_stats, "mana", 0),
     mana             |-> Get(base_stats, "mana", 0),
     inventory        |-> <<>>,
     active_quests    |-> <<>>,
     completed_quests |-> <<>>]

is_character_dead(c) == Get(c, "health", 0) <= 0

\* Mutant: the class test of line 208 left out, every class gains magic.
LevelUp_ManaForAll(c) ==
    LET threshold == c.level * 100
        c1 == [c EXCEPT !.xp = @ - threshold]
        c2 == [c1 EXCEPT !.experience = c1.xp]
        c3 == [c2 EXCEPT !.level = Get(c2, "level", 1) + 1]
        c4 == [c3 EXCEPT !.max_health = Get(c3, "max_health", 0) + 10,
                         !.strength = Get(c3, "strength", 0) + 2]
        c5 == [c4 EXCEPT !.magic = Get(c4, "magic", 0) + 5,
                         !.mana = Get(c4, "mana", 0) + 5]
    IN  [c5 EXCEPT !.health = Get(c5, "max_health", c5.health)]

\* One iteration of the level-up loop's body (lines 196-214).
LevelUp(c) ==
    LET threshold == c.level * 100
        c1 == [c EXCEPT !.xp = @ - threshold]
        c2 == [c1 EXCEPT !.experience = c1.xp]
        c3 == [c2 EXCEPT !.level = Get(c2, "level", 1) + 1]
        c4 == [c3 EXCEPT !.max_health = Get(c3, "max_health", 0) + 10,
                         !.strength = Get(c3, "strength", 0) + 2]
        class_def == Get(CHARACTER_CLASSES, Get(c4, "class", None), <<>>)
        c5 == IF "mana" \in DOMAIN class_def
              THEN [c4 EXCEPT !.magic = Get(c4, "magic", 0) + 5,
                              !.mana = Get(c4, "mana", 0) + 5]
              ELSE c4
    IN  [c5 EXCEPT !.health = Get(c5, "max_health", c5.health)]

\* The while loop of gain_experience (line 195).
RECURSIVE LevelUpLoop(_), LevelUpLoopStrict(_)

\* Mutant: the loop condition with > for >=.
LevelUpLoopStrict(c) ==
    IF c.xp > Get(c, "level", 1) * 100 THEN LevelUpLoopStrict(LevelUp(c)) ELSE c

LevelUpLoop(c) ==
    IF c.xp >= Get(c, "level", 1) * 100 THEN LevelUpLoop(LevelUp(c)) ELSE c

\* Mutant: the death test of lines 182-183 left out.
gain_experience_OfTheDead(c, xp_amount) ==
    LET c3 == [c EXCEPT !.xp = @ + xp_amount]
        c4 == [c3 EXCEPT !.experience = c3.xp]
        c5 == LevelUpLoop(c4)
        c6 == [c5 EXCEPT !.experience = c5.xp]
    IN  Ok(c6, Num(c6.xp))

gain_experience(c, xp_amount) ==
    IF is_character_dead(c) THEN Raise(c, "CharacterDeadError")
    ELSE
      LET c1 == IF "xp" \notin DOMAIN c
                THEN Set(c, "xp", Get(c, "experience", 0)) ELSE c
          c2 == IF "experience" \notin DOMAIN c1
                THEN Set(c1, "experience", c1.xp) ELSE c1
          c3 == [c2 EXCEPT !.xp = @ + xp_amount]
          c4 == [c3 EXCEPT !.experience = c3.xp]
          c5 == LevelUpLoop(c4)
          c6 == [c5 EXCEPT !.experience = c5.xp]
      IN  Ok(c6, Num(c6.xp))

\* Mutant: the overdraw check of line 228 left out.
add_gold_NoCheck(c, amount) ==
    Ok(Set(c, "gold", Get(c, "gold", 0) + amount), Num(Get(c, "gold", 0) + amount))

add_gold(c, amount) ==
    LET current == Get(c, "gold", 0)
        new_total == current + amount
    IN  IF new_total < 0 THEN Raise(c, "ValueError")
        ELSE Ok(Set(c, "gold", new_total), Num(new_total))

heal_character(c, amount) ==
    IF is_character_dead(c) THEN Ok(c, Num(Get(c, "health", 0)))
    ELSE
      LET max_hp == Get(c, "max_health", 0)
          c1 == Set(c, "health", Min(max_hp, Get(c, "health", 0) + amount))
      IN  Ok(c1, Num(c1.health))

revive_character(c) ==
    IF ~is_character_dead(c) THEN Ok(c, Bool(FALSE))
    ELSE Ok(Set(c, "health", Get(c, "max_health", 0)), Bool(TRUE))

(* ------------------------------------------------------------------ *)
(* quest_handler.py                                                    *)
(* ------------------------------------------------------------------ *)

\* The quest catalog handed to the quest operations: the two quests of the
\* default data file, keyed by name as in quest_handler's own test data, and
\* a second quest without prerequisite.
QuestData ==
    [first_quest    |-> [reward_xp |-> 50, reward_gold |-> 25,
                         required_level |-> 1, prerequisite |-> "NONE"],
     goblin_trouble |-> [reward_xp |-> 100, reward_gold |-> 40,
                         required_level |-> 2, prerequisite |-> "first_quest"],
     herb_run       |-> [reward_xp |-> 50, reward_gold |-> 0,
                         required_level |-> 1, prerequisite |-> "NONE"]]

\* Mutant: the already-active check of line 39 left out.
accept_quest_NoActiveCheck(c, quest_id, quest_data_dict) ==
    IF quest_id \notin DOMAIN quest_data_dict
        THEN Raise(c, "QuestNotFoundError")
    ELSE LET quest == quest_data_dict[quest_id] IN
    IF In(quest_id, c.completed_quests)
        THEN Raise(c, "QuestAlreadyCompletedError")
    ELSE IF Get(c, "level", 1) < quest.required_level
        THEN Raise(c, "InsufficientLevelError")
    ELSE IF quest.prerequisite # "NONE"
            /\ ~In(quest.prerequisite, c.completed_quests)
        THEN Raise(c, "QuestRequirementsNotMetError")
    ELSE Ok([c EXCEPT !.active_quests = Append(@, quest_id)], Bool(TRUE))

\* Mutant: the already-completed check of line 35 left out.
accept_quest_NoCompletedCheck(c, quest_id, quest_data_dict) ==
    IF quest_id \notin DOMAIN quest_data_dict
        THEN Raise(c, "QuestNotFoundError")
    ELSE LET quest == quest_data_dict[quest_id] IN
    IF In(quest_id, c.active_quests)
        THEN Raise(c, "QuestRequirementsNotMetError")
    ELSE IF Get(c, "level", 1) < quest.required_level
        THEN Raise(c, "InsufficientLevelError")
    ELSE IF quest.prerequisite # "NONE"
            /\ ~In(quest.prerequisite, c.completed_quests)
        THEN Raise(c, "QuestRequirementsNotMetError")
    ELSE Ok([c EXCEPT !.active_quests = Append(@, quest_id)], Bool(TRUE))

\* Mutant: the level check of line 43 with <= for <.
accept_quest_LevelOffByOne(c, quest_id, quest_data_dict) ==
    IF quest_id \notin DOMAIN quest_data_dict
        THEN Raise(c, "QuestNotFoundError")
    ELSE LET quest == quest_data_dict[quest_id] IN
    IF In(quest_id, c.completed_quests)
        THEN Raise(c, "QuestAlreadyCompletedError")
    ELSE IF In(quest_id, c.active_quests)
        THEN Raise(c, "QuestRequirementsNotMetError")
    ELSE IF Get(c, "level", 1) <= quest.required_level
        THEN Raise(c, "InsufficientLevelError")
    ELSE IF quest.prerequisite # "NONE"
            /\ ~In(quest.prerequisite, c.completed_quests)
        THEN Raise(c, "QuestRequirementsNotMetError")
    ELSE Ok([c EXCEPT !.active_quests = Append(@, quest_id)], Bool(TRUE))

accept_quest(c, quest_id, quest_data_dict) ==
    IF quest_id \notin DOMAIN quest_data_dict
        THEN Raise(c, "QuestNotFoundError")
    ELSE LET quest == quest_data_dict[quest_id] IN
    IF In(quest_id, c.completed_quests)
        THEN Raise(c, "QuestAlreadyCompletedError")
    ELSE IF In(quest_id, c.active_quests)
        THEN Raise(c, "QuestRequirementsNotMetError")
    ELSE IF Get(c, "level", 1) < quest.required_level
        THEN Raise(c, "InsufficientLevelError")
    ELSE IF quest.prerequisite # "NONE"
            /\ ~In(quest.prerequisite, c.completed_quests)
        THEN Raise(c, "QuestRequirementsNotMetError")
    ELSE Ok([c EXCEPT !.active_quests = Append(@, quest_id)], Bool(TRUE))

\* Mutant: the is-active check of line 68 left out.
complete_quest_NoActiveCheck(c, quest_id, quest_data_dict) ==
    IF quest_id \notin DOMAIN quest_data_dict
        THEN Raise(c, "QuestNotFoundError")
    ELSE
      LET quest == quest_data_dict[quest_id]
          c1 == [c EXCEPT !.active_quests = ListRemove(@, quest_id)]
          c2 == [c1 EXCEPT !.completed_quests = Append(@, quest_id)]
          c3 == [c2 EXCEPT !.experience = @ + quest.reward_xp]
          c4 == [c3 EXCEPT !.gold = @ + quest.reward_gold]
      IN  Ok(c4, [type |-> "dict", xp |-> quest.reward_xp, gold |-> quest.reward_gold])

complete_quest(c, quest_id, quest_data_dict) ==
    IF quest_id \notin DOMAIN quest_data_dict
        THEN Raise(c, "QuestNotFoundError")
    ELSE IF ~In(quest_id, c.active_quests)
        THEN Raise(c, "QuestNotActiveError")
    ELSE
      LET quest == quest_data_dict[quest_id]
          c1 == [c EXCEPT !.active_quests = ListRemove(@, quest_id)]
          c2 == [c1 EXCEPT !.completed_quests = Append(@, quest_id)]
          xp_reward == quest.reward_xp
          gold_reward == quest.reward_gold
          c3 == [c2 EXCEPT !.experience = @ + xp_reward]
          c4 == [c3 EXCEPT !.gold = @ + gold_reward]
      IN  Ok(c4, [type |-> "dict", xp |-> xp_reward, gold |-> gold_reward])

\* Mutant: the abandoned quest is also appended to completed_quests.
abandon_quest_MarksCompleted(c, quest_id) ==
    IF ~In(quest_id, c.active_quests)
        THEN Raise(c, "QuestNotActiveError")
    ELSE Ok([c EXCEPT !.active_quests = ListRemove(@, quest_id),
                      !.completed_quests = Append(@, quest_id)], Bool(TRUE))

abandon_quest(c, quest_id) ==
    IF ~In(quest_id, c.active_quests)
        THEN Raise(c, "QuestNotActiveError")
    ELSE Ok([c EXCEPT !.active_quests = ListRemove(@, quest_id)], Bool(TRUE))

\* The quest identifiers in the order the catalogs are filled in (those of a
\* loaded catalog in the order of the file's blocks); a dict is iterated in
\* the insertion order of its keys.
KeyOrder == <<"first_quest", "goblin_trouble", "herb_run", "1", "2">>

\* dict.keys() / dict.items()
Keys(d) == SelectSeq(KeyOrder, LAMBDA k : k \in DOMAIN d)

\* Mutant: the already-active test of line 127 left out.
QuestPassesFilter_IgnoresActive(c, qid, quest) ==
    /\ ~In(qid, c.completed_quests)
    /\ c.level >= quest.required_level
    /\ ~(quest.prerequisite # "NONE"
         /\ ~In(quest.prerequisite, c.completed_quests))

\* The body of the loop of get_available_quests (lines 123-139): TRUE when
\* no continue is taken.
QuestPassesFilter(c, qid, quest) ==
    /\ ~In(qid, c.completed_quests)
    /\ ~In(qid, c.active_quests)
    /\ ~(c.level < quest.required_level)
    /\ ~(quest.prerequisite # "NONE"
         /\ ~In(quest.prerequisite, c.completed_quests))

get_available_quests(c, quest_data_dict) ==
    LET available == SelectSeq(Keys(quest_data_dict),
                         LAMBDA qid : QuestPassesFilter(c, qid, quest_data_dict[qid]))
    IN  Ok(c, [type |-> "list",
               list |-> [i \in 1..Len(available) |-> quest_data_dict[available[i]]]])

can_accept_quest(c, quest_id, quest_data_dict) ==
    IF quest_id \notin DOMAIN quest_data_dict THEN Ok(c, Bool(FALSE))
    ELSE LET quest == quest_data_dict[quest_id]
             prereq == quest.prerequisite
         IN
    IF In(quest_id, c.completed_quests) THEN Ok(c, Bool(FALSE))
    ELSE IF In(quest_id, c.active_quests) THEN Ok(c, Bool(FALSE))
    ELSE IF c.level < quest.required_level THEN Ok(c, Bool(FALSE))
    ELSE IF prereq # "NONE" /\ ~In(prereq, c.completed_quests)
        THEN Ok(c, Bool(FALSE))
    ELSE Ok(c, Bool(TRUE))

\* validate_quest_prerequisites as [raised, ret].
validate_quest_prerequisites(quest_data_dict) ==
    IF \E qid \in DOMAIN quest_data_dict :
           LET prereq == quest_data_dict[qid].prerequisite
           IN  prereq # "NONE" /\ prereq \notin DOMAIN quest_data_dict
    THEN [raised |-> "QuestNotFoundError", ret |-> NoneValue]
    ELSE [raised |-> "none", ret |-> Bool(TRUE)]

\* Mutant: the reverse of line 231 left out.
Reverse_Skipped(list) == list

\* list.reverse()
Reverse(list) == [i \in 1..Len(list) |-> list[Len(list) + 1 - i]]

(* ------------------------------------------------------------------ *)
(* inventory_system.py                                                 *)
(* ------------------------------------------------------------------ *)

MAX_INVENTORY_SIZE == 20

\* A Python string that is parsed is the sequence of its characters.
\* str.split(sep) for a one-character separator.
RECURSIVE Split(_, _)
Split(s, sep) ==
    IF ~In(sep, s) THEN <<s>>
    ELSE LET i == CHOOSE j \in 1..Len(s) :
                      s[j] = sep /\ \A k \in 1..(j - 1) : s[k] # sep
         IN  <<SubSeq(s, 1, i - 1)>> \o Split(SubSeq(s, i + 1, Len(s)), sep)

\* str.strip() of blanks.
RECURSIVE Strip(_)
Strip(s) ==
    IF s # <<>> /\ s[1] = " " THEN Strip(Tail(s))
    ELSE IF s # <<>> /\ s[Len(s)] = " " THEN Strip(SubSeq(s, 1, Len(s) - 1))
    ELSE s

DigitChars == <<"0", "1", "2", "3", "4", "5", "6", "7", "8", "9">>

RECURSIVE DigitsValue(_)
DigitsValue(s) ==
    IF s = <<>> THEN 0
    ELSE LET d == CHOOSE j \in 1..10 : DigitChars[j] = s[Len(s)]
         IN  DigitsValue(SubSeq(s, 1, Len(s) - 1)) * 10 + (d - 1)

\* int(text) as [raised, int]: blanks stripped, an optional sign, then one
\* or more decimal digits; anything else is a ValueError, reported here as
\* raised.  (int also accepts an underscore between digits; no text of the
\* catalog holds one.)
ParseInt(text) ==
    LET t == Strip(text)
        signed == t # <<>> /\ t[1] \in {"+", "-"}
        digits == IF signed THEN Tail(t) ELSE t
    IN  IF digits = <<>> \/ \E i \in 1..Len(digits) : ~In(digits[i], DigitChars)
        THEN [raised |-> "ValueError", int |-> 0]
        ELSE [raised |-> "none",
              int |-> IF signed /\ t[1] = "-" THEN 0 - DigitsValue(digits)
                      ELSE DigitsValue(digits)]

\* The spelling of the dict keys an effect string can name.
KeySpelling ==
    [health     |-> <<"h", "e", "a", "l", "t", "h">>,
     max_health |-> <<"m", "a", "x", "_", "h", "e", "a", "l", "t", "h">>,
     strength   |-> <<"s", "t", "r", "e", "n", "g", "t", "h">>,
     defense    |-> <<"d", "e", "f", "e", "n", "s", "e">>,
     magic      |-> <<"m", "a", "g", "i", "c">>]

\* The dict key a character sequence spells (the effect strings of the
\* catalog name only keys of KeySpelling).
KeyOf(chars) == CHOOSE k \in DOMAIN KeySpelling : KeySpelling[k] = chars

\* The item catalog: the three items of the default data file with their
\* effect strings, and a consumable that acts on another stat than health.
ItemData ==
    [rusty_sword   |-> [name |-> "Rusty Sword", type |-> "weapon", cost |-> 15,
                        effect |-> Text(KeySpelling.strength \o <<":", "5">>)],
     small_potion  |-> [name |-> "Small Potion", type |-> "consumable", cost |-> 10,
                        effect |-> Text(KeySpelling.health \o <<":", "3", "0">>)],
     leather_armor |-> [name |-> "Leather Armor", type |-> "armor", cost |-> 25,
                        effect |-> Text(KeySpelling.strength \o <<":", "1">>)],
     strength_elixir |-> [name |-> "Strength Elixir", type |-> "consumable",
                          cost |-> 30,
                          effect |-> Text(KeySpelling.strength \o <<":", "3">>)]]

\* A catalog that also holds a piece of armor whose effect is on health.
Armory ==
    [i \in (DOMAIN ItemData) \cup {"life_charm"} |->
        IF i = "life_charm"
        THEN [name |-> "Life Charm", type |-> "armor", cost |-> 40,
              effect |-> Text(KeySpelling.health \o <<":", "2", "0">>)]
        ELSE ItemData[i]]

\* character["item_data"] is a reference to a catalog dict; the record holds
\* the catalog's name and Deref gives the dict.
Deref(ref) ==
    IF ref = "ItemData" THEN ItemData
    ELSE IF ref = "Armory" THEN Armory
    ELSE <<>>

\* parse_item_effect as [raised, stat, value]; the bare except turns every
\* exception, the AttributeError of an argument without split included, into
\* InvalidItemTypeError.
parse_item_effect(effect_string) ==
    IF effect_string.type # "str"
    THEN [raised |-> "InvalidItemTypeError", stat |-> "", value |-> 0]
    ELSE
    LET parts == Split(effect_string.chars, ":") IN
    IF Len(parts) # 2
    THEN [raised |-> "InvalidItemTypeError", stat |-> "", value |-> 0]
    ELSE LET value == ParseInt(parts[2]) IN
         IF value.raised # "none"
         THEN [raised |-> "InvalidItemTypeError", stat |-> "", value |-> 0]
         ELSE [raised |-> "none", stat |-> KeyOf(parts[1]), value |-> value.int]

\* apply_stat_effect mutates the character and returns nothing.
apply_stat_effect(c, stat_name, value) ==
    LET c1 == IF stat_name \notin DOMAIN c THEN Set(c, stat_name, 0) ELSE c
        c2 == [c1 EXCEPT ![stat_name] = @ + value]
    IN  IF stat_name = "health"
        THEN [c2 EXCEPT !.health = Min(c2.health, Get(c2, "max_health", 9999))]
        ELSE c2

\* Mutant: the capacity check of line 39 left out.
add_item_to_inventory_NoLimit(c, item_id) ==
    Ok([c EXCEPT !.inventory = Append(@, item_id)], Bool(TRUE))

add_item_to_inventory(c, item_id) ==
    LET inventory == Get(c, "inventory", <<>>) IN
    IF Len(inventory) >= MAX_INVENTORY_SIZE THEN Raise(c, "InventoryFullError")
    ELSE IF "inventory" \in DOMAIN c
         THEN Ok([c EXCEPT !.inventory = Append(@, item_id)], Bool(TRUE))
         ELSE Ok(c, Bool(TRUE))

remove_item_from_inventory(c, item_id) ==
    LET inventory == Get(c, "inventory", <<>>) IN
    IF ~In(item_id, inventory) THEN Raise(c, "ItemNotFoundError")
    ELSE Ok([c EXCEPT !.inventory = ListRemove(@, item_id)], Bool(TRUE))

has_item(c, item_id) == In(item_id, Get(c, "inventory", <<>>))

get_inventory_space_remaining(c) ==
    MAX_INVENTORY_SIZE - Len(Get(c, "inventory", <<>>))

\* Mutant: the item is not removed after use (line 141 left out).
use_item_KeepsItem(c, item_id, item_data) ==
    IF ~has_item(c, item_id) THEN Raise(c, "ItemNotFoundError")
    ELSE IF item_data.type # "consumable" THEN Raise(c, "InvalidItemTypeError")
    ELSE LET p == parse_item_effect(item_data.effect) IN
    IF p.raised # "none" THEN Raise(c, p.raised)
    ELSE Ok(apply_stat_effect(c, p.stat, p.value),
            [type |-> "str", str |-> "Used",
             item_name |-> Get(item_data, "name", item_id),
             value |-> p.value, stat |-> p.stat])

use_item(c, item_id, item_data) ==
    IF ~has_item(c, item_id) THEN Raise(c, "ItemNotFoundError")
    ELSE IF item_data.type # "consumable" THEN Raise(c, "InvalidItemTypeError")
    ELSE LET p == parse_item_effect(item_data.effect) IN
    IF p.raised # "none" THEN Raise(c, p.raised)
    ELSE LET c1 == apply_stat_effect(c, p.stat, p.value)
             r == remove_item_from_inventory(c1, item_id)
         IN  IF r.raised # "none" THEN r
             ELSE Ok(r.c, [type |-> "str", str |-> "Used",
                           item_name |-> Get(item_data, "name", item_id),
                           value |-> p.value, stat |-> p.stat])

\* Mutant: the equipped item is not taken out of the inventory (line 183
\* left out).
Equip_KeepsCopy(c, item_id, item_data, slot, type) ==
    IF ~has_item(c, item_id) THEN Raise(c, "ItemNotFoundError")
    ELSE IF item_data.type # type THEN Raise(c, "InvalidItemTypeError")
    ELSE
      LET old == IF ~Truthy(Get(c, slot, None)) THEN Ok(c, NoneValue)
                 ELSE LET old_id == c[slot] IN
                      IF "item_data" \notin DOMAIN c THEN Raise(c, "KeyError")
                      ELSE IF old_id \notin DOMAIN Deref(c.item_data)
                          THEN Raise(c, "KeyError")
                      ELSE LET p == parse_item_effect(
                                        Deref(c.item_data)[old_id].effect) IN
                           IF p.raised # "none" THEN Raise(c, p.raised)
                           ELSE add_item_to_inventory(
                                    apply_stat_effect(c, p.stat, 0 - p.value), old_id)
      IN  IF old.raised # "none" THEN Raise(old.c, old.raised)
          ELSE LET p == parse_item_effect(item_data.effect) IN
               IF p.raised # "none" THEN Raise(old.c, p.raised)
               ELSE Ok(Set(apply_stat_effect(old.c, p.stat, p.value), slot, item_id),
                       [type |-> "str", str |-> "Equipped",
                        item_name |-> Get(item_data, "name", item_id)])

\* equip_weapon and equip_armor are the same code up to the slot key and the
\* item type.
Equip(c, item_id, item_data, slot, type) ==
    IF ~has_item(c, item_id) THEN Raise(c, "ItemNotFoundError")
    ELSE IF item_data.type # type THEN Raise(c, "InvalidItemTypeError")
    ELSE
      \* lines 164-173: the slot is occupied
      LET old == IF ~Truthy(Get(c, slot, None)) THEN Ok(c, NoneValue)
                 ELSE LET old_id == c[slot] IN
                      IF "item_data" \notin DOMAIN c THEN Raise(c, "KeyError")
                      ELSE IF old_id \notin DOMAIN Deref(c.item_data)
                          THEN Raise(c, "KeyError")
                      ELSE LET p == parse_item_effect(
                                        Deref(c.item_data)[old_id].effect) IN
                           IF p.raised # "none" THEN Raise(c, p.raised)
                           ELSE add_item_to_inventory(
                                    apply_stat_effect(c, p.stat, 0 - p.value), old_id)
      IN  IF old.raised # "none" THEN Raise(old.c, old.raised)
          ELSE LET p == parse_item_effect(item_data.effect) IN
               IF p.raised # "none" THEN Raise(old.c, p.raised)
               ELSE LET c1 == apply_stat_effect(old.c, p.stat, p.value)
                        c2 == Set(c1, slot, item_id)
                        r == remove_item_from_inventory(c2, item_id)
                    IN  IF r.raised # "none" THEN r
                        ELSE Ok(r.c, [type |-> "str", str |-> "Equipped",
                                      item_name |-> Get(item_data, "name", item_id)])

equip_weapon(c, item_id, item_data) ==
    Equip(c, item_id, item_data, "equipped_weapon", "weapon")

equip_armor(c, item_id, item_data) ==
    Equip(c, item_id, item_data, "equipped_armor", "armor")

\* unequip_weapon and unequip_armor are the same code up to the slot key.
Unequip(c, slot) ==
    IF ~Truthy(Get(c, slot, None)) THEN Ok(c, NoneValue)
    ELSE LET item_id == c[slot] IN
    IF "item_data" \notin DOMAIN c THEN Raise(c, "KeyError")
    ELSE IF item_id \notin DOMAIN Deref(c.item_data) THEN Raise(c, "KeyError")
    ELSE LET p == parse_item_effect(Deref(c.item_data)[item_id].effect) IN
    IF p.raised # "none" THEN Raise(c, p.raised)
    ELSE LET c1 == apply_stat_effect(c, p.stat, 0 - p.value) IN
    IF get_inventory_space_remaining(c1) = 0 THEN Raise(c1, "InventoryFullError")
    ELSE LET a == add_item_to_inventory(c1, item_id) IN
    IF a.raised # "none" THEN a
    ELSE Ok(Set(a.c, slot, None), Str(item_id))

unequip_weapon(c) == Unequip(c, "equipped_weapon")

unequip_armor(c) == Unequip(c, "equipped_armor")

\* Mutant: the cost is taken before the test for a free slot.
purchase_item_ChargesFirst(c, item_id, item_data) ==
    LET cost == item_data.cost IN
    IF c.gold < cost THEN Raise(c, "InsufficientResourcesError")
    ELSE LET c1 == [c EXCEPT !.gold = @ - cost] IN
         IF get_inventory_space_remaining(c1) = 0
         THEN Raise(c1, "InventoryFullError")
         ELSE LET a == add_item_to_inventory(c1, item_id)
              IN  IF a.raised # "none" THEN a ELSE Ok(a.c, Bool(TRUE))

purchase_item(c, item_id, item_data) ==
    LET cost == item_data.cost IN
    IF c.gold < cost THEN Raise(c, "InsufficientResourcesError")
    ELSE IF get_inventory_space_remaining(c) = 0 THEN Raise(c, "InventoryFullError")
    ELSE LET c1 == [c EXCEPT !.gold = @ - cost]
             a == add_item_to_inventory(c1, item_id)
         IN  IF a.raised # "none" THEN a ELSE Ok(a.c, Bool(TRUE))

\* Mutant: the price is rounded up instead of down.
sell_item_RoundsUp(c, item_id, item_data) ==
    IF ~has_item(c, item_id) THEN Raise(c, "ItemNotFoundError")
    ELSE LET price == (item_data.cost + 1) \div 2
             r == remove_item_from_inventory(c, item_id)
         IN  IF r.raised # "none" THEN r
             ELSE Ok([r.c EXCEPT !.gold = @ + price], Num(price))

sell_item(c, item_id, item_data) ==
    IF ~has_item(c, item_id) THEN Raise(c, "ItemNotFoundError")
    ELSE LET price == item_data.cost \div 2
             r == remove_item_from_inventory(c, item_id)
         IN  IF r.raised # "none" THEN r
             ELSE Ok([r.c EXCEPT !.gold = @ + price], Num(price))

(* ------------------------------------------------------------------ *)
(* game_data.py                                                        *)
(* ------------------------------------------------------------------ *)

\* A data file is [exists, blocks]: whether the path exists and the blocks
\* _split_into_blocks makes of its text.  A block is the sequence of its
\* lines, and a line is held as line.split(":", 1) leaves it: key is what
\* key.strip().upper() gives and val the text after the colon.  (Every line
\* of the files considered has a colon and one of the keys the parsers know.)

\* str.upper() and str.lower() on the letters the values of the files hold.
UpperChar(ch) ==
    IF ch = "n" THEN "N" ELSE IF ch = "o" THEN "O" ELSE IF ch = "e" THEN "E"
    ELSE ch

Upper(s) == [i \in 1..Len(s) |-> UpperChar(s[i])]

LowerChar(ch) ==
    IF ch = "W" THEN "w" ELSE IF ch = "A" THEN "a" ELSE IF ch = "C" THEN "c"
    ELSE ch

Lower(s) == [i \in 1..Len(s) |-> LowerChar(s[i])]

\* An int that serves as an identifier (quest_id, item_id, prerequisite) is
\* written as its decimal numeral: equal ints are equal numerals, and no
\* numeral equals "NONE", None or a name.  The files hold the ids 0 to 9.
IntId(n) == DigitChars[n + 1]

\* The spelling of the item types.
TypeSpelling ==
    [weapon     |-> <<"w", "e", "a", "p", "o", "n">>,
     armor      |-> <<"a", "r", "m", "o", "r">>,
     consumable |-> <<"c", "o", "n", "s", "u", "m", "a", "b", "l", "e">>,
     ring       |-> <<"r", "i", "n", "g">>]

TypeOf(chars) == CHOOSE t \in DOMAIN TypeSpelling : TypeSpelling[t] = chars

\* validate_quest_data as the exception it raises, "none" when it returns;
\* the isinstance tests hold for every value parse_quest_block stores.
validate_quest_data(quest_dict) ==
    LET required == {"quest_id", "title", "description", "reward_xp",
                     "reward_gold", "required_level", "prerequisite"}
    IN  IF \E key \in required : key \notin DOMAIN quest_dict
        THEN "InvalidDataFormatError" ELSE "none"

\* What one iteration of the loop of parse_quest_block (lines 264-306)
\* does with a line: the field it stores and the value, or the exception it
\* raises.
QuestLine(line) ==
    LET Field(key, val, n) ==
        LET
            Fail == [raised |-> "InvalidDataFormatError", field |-> "", value |-> None]
            Store(field, value) == [raised |-> "none", field |-> field, value |-> value]
        IN  IF key = "QUEST_ID"
            THEN IF n.raised # "none" THEN Fail ELSE Store("quest_id", IntId(n.int))
            ELSE IF key = "TITLE" THEN Store("title", val)
            ELSE IF key = "DESCRIPTION" THEN Store("description", val)
            ELSE IF key = "REWARD_XP"
            THEN IF n.raised # "none" THEN Fail ELSE Store("reward_xp", n.int)
            ELSE IF key = "REWARD_GOLD"
            THEN IF n.raised # "none" THEN Fail ELSE Store("reward_gold", n.int)
            ELSE IF key = "REQUIRED_LEVEL"
            THEN IF n.raised # "none" THEN Fail ELSE Store("required_level", n.int)
            ELSE \* PREREQUISITE
                 IF Upper(val) = <<"N", "O", "N", "E">>
                 THEN Store("prerequisite", None)
                 ELSE IF n.raised # "none" THEN Fail
                 ELSE Store("prerequisite", IntId(n.int))
    IN  Field(line.key, Strip(line.val), ParseInt(Strip(line.val)))

\* parse_quest_block as [raised, data]: the loop stores the fields line by
\* line, a later line of a key replacing an earlier one, and raises at the
\* first line it cannot read; validate_quest_data follows.
parse_quest_block(lines) ==
    LET Block(stored) ==
        LET
            fields == {stored[i].field : i \in 1..Len(lines)}
            Last(f) == CHOOSE i \in 1..Len(lines) :
                           /\ stored[i].field = f
                           /\ \A j \in (i + 1)..Len(lines) : stored[j].field # f
            data == [f \in fields |-> stored[Last(f)].value]
        IN  IF \E i \in 1..Len(lines) : stored[i].raised # "none"
            THEN [raised |-> "InvalidDataFormatError", data |-> <<>>]
            ELSE [raised |-> validate_quest_data(data), data |-> data]
    IN  Block([i \in 1..Len(lines) |-> QuestLine(lines[i])])

\* The loop of load_quests (lines 52-59) as [raised, quests]: each block is
\* parsed and stored under its quest_id; a block that cannot be parsed and a
\* quest_id met before both raise InvalidDataFormatError.
QuestBlocksLoop(blocks) ==
    LET Loop(parsed) ==
        LET
            Block(qid) == CHOOSE i \in 1..Len(blocks) : parsed[i].data.quest_id = qid
        IN  IF \E i \in 1..Len(blocks) : parsed[i].raised # "none"
            THEN [raised |-> "InvalidDataFormatError", quests |-> <<>>]
            ELSE IF \E i, j \in 1..Len(blocks) :
                        i < j /\ parsed[i].data.quest_id = parsed[j].data.quest_id
            THEN [raised |-> "InvalidDataFormatError", quests |-> <<>>]
            ELSE [raised |-> "none",
                  quests |-> [qid \in {parsed[i].data.quest_id : i \in 1..Len(blocks)}
                                 |-> parsed[Block(qid)].data]]
    IN  Loop([i \in 1..Len(blocks) |-> parse_quest_block(blocks[i])])

\* load_quests as [raised, quests].
load_quests(file) ==
    IF ~file.exists THEN [raised |-> "MissingDataFileError", quests |-> <<>>]
    ELSE QuestBlocksLoop(file.blocks)

\* validate_item_data as the exception it raises, "none" when it returns.
validate_item_data(item_dict) ==
    LET required == {"item_id", "name", "type", "effect", "cost", "description"}
    IN  IF \E key \in required : key \notin DOMAIN item_dict
        THEN "InvalidDataFormatError"
        ELSE IF item_dict.type \notin {"weapon", "armor", "consumable"}
        THEN "InvalidDataFormatError"
        ELSE "none"

\* What one iteration of the loop of parse_item_block (lines 329-365) does
\* with a line: the field it stores and the value, or the exception it
\* raises.
ItemLine(line) ==
    LET Field(key, val, n) ==
        LET
            Fail == [raised |-> "InvalidDataFormatError", field |-> "", value |-> None]
            Store(field, value) == [raised |-> "none", field |-> field, value |-> value]
        IN  IF key = "ITEM_ID"
            THEN IF n.raised # "none" THEN Fail ELSE Store("item_id", IntId(n.int))
            ELSE IF key = "NAME" THEN Store("name", val)
            ELSE IF key = "TYPE" THEN Store("type", TypeOf(Lower(val)))
            ELSE IF key = "EFFECT"
            THEN IF ~In(":", val) THEN Fail
                 ELSE LET i == CHOOSE j \in 1..Len(val) :
                                   val[j] = ":" /\ \A k \in 1..(j - 1) : val[k] # ":"
                          stat == Strip(SubSeq(val, 1, i - 1))
                          ival == ParseInt(Strip(SubSeq(val, i + 1, Len(val))))
                      IN  IF ival.raised # "none" THEN Fail
                          ELSE Store("effect",
                                     Dict([s \in {KeyOf(stat)} |-> ival.int]))
            ELSE IF key = "COST"
            THEN IF n.raised # "none" THEN Fail ELSE Store("cost", n.int)
            ELSE \* DESCRIPTION
                 Store("description", val)
    IN  Field(line.key, Strip(line.val), ParseInt(Strip(line.val)))

\* parse_item_block as [raised, data], as parse_quest_block.
parse_item_block(lines) ==
    LET Block(stored) ==
        LET
            fields == {stored[i].field : i \in 1..Len(lines)}
            Last(f) == CHOOSE i \in 1..Len(lines) :
                           /\ stored[i].field = f
                           /\ \A j \in (i + 1)..Len(lines) : stored[j].field # f
            data == [f \in fields |-> stored[Last(f)].value]
        IN  IF \E i \in 1..Len(lines) : stored[i].raised # "none"
            THEN [raised |-> "InvalidDataFormatError", data |-> <<>>]
            ELSE [raised |-> validate_item_data(data), data |-> data]
    IN  Block([i \in 1..Len(lines) |-> ItemLine(lines[i])])

\* The loop of load_items (lines 93-100) as [raised, items], as that of
\* load_quests.
ItemBlocksLoop(blocks) ==
    LET Loop(parsed) ==
        LET
            Block(iid) == CHOOSE i \in 1..Len(blocks) : parsed[i].data.item_id = iid
        IN  IF \E i \in 1..Len(blocks) : parsed[i].raised # "none"
            THEN [raised |-> "InvalidDataFormatError", items |-> <<>>]
            ELSE IF \E i, j \in 1..Len(blocks) :
                        i < j /\ parsed[i].data.item_id = parsed[j].data.item_id
            THEN [raised |-> "InvalidDataFormatError", items |-> <<>>]
            ELSE [raised |-> "none",
                  items |-> [iid \in {parsed[i].data.item_id : i \in 1..Len(blocks)}
                                |-> parsed[Block(iid)].data]]
    IN  Loop([i \in 1..Len(blocks) |-> parse_item_block(blocks[i])])

\* load_items as [raised, items].
load_items(file) ==
    IF ~file.exists THEN [raised |-> "MissingDataFileError", items |-> <<>>]
    ELSE ItemBlocksLoop(file.blocks)

(* ------------------------------------------------------------------ *)
(* combat_system.py: the operations on the character alone             *)
(* ------------------------------------------------------------------ *)

\* SimpleBattle.apply_damage(target, damage)
apply_damage(target, damage) ==
    Ok(Set(target, "health", Max(0, Get(target, "health", 0) - damage)), NoneValue)

\* create_enemy(enemy_type) for the three known types.
create_enemy(enemy_type) ==
    IF enemy_type = "goblin"
    THEN [type |-> "goblin", health |-> 50, max_health |-> 50, strength |-> 8,
          magic |-> 2, xp_reward |-> 25, gold_reward |-> 10]
    ELSE IF enemy_type = "orc"
    THEN [type |-> "orc", health |-> 80, max_health |-> 80, strength |-> 12,
          magic |-> 5, xp_reward |-> 50, gold_reward |-> 25]
    ELSE [type |-> "dragon", health |-> 200, max_health |-> 200, strength |-> 25,
          magic |-> 15, xp_reward |-> 200, gold_reward |-> 100]

\* Mutant: the Rogue's cooldown is 3 like the others'.
CLASS_COOLDOWNS_AllThree == [Warrior |-> 3, Mage |-> 3, Rogue |-> 3, Cleric |-> 3]

CLASS_COOLDOWNS == [Warrior |-> 3, Mage |-> 3, Rogue |-> 4, Cleric |-> 3]

\* Mutant: escape is considered from half of max_health down.
LowHealth_Half(c) ==
    Get(c, "health", 0) * 2 <= Max(2, Get(c, "max_health", 1))

\* The test of line 184, health <= max(1, max_health * 0.2), with both sides
\* taken times 5.
LowHealth(c) ==
    Get(c, "health", 0) * 5 <= Max(5, Get(c, "max_health", 1))

\* SimpleBattle.calculate_damage(attacker, defender) as [damage, attacker]:
\* the attacker dict loses its "_last_ability" entry when it is the battle's
\* character and the entry says mage_fireball.
calculate_damage(attacker, defender, attacker_is_character) ==
    LET flagged == /\ attacker_is_character
                   /\ Get(attacker, "_last_ability", None) = "mage_fireball"
        atk == IF flagged THEN Get(attacker, "magic", 0)
               ELSE Get(attacker, "strength", 0)
        mitigation == Get(defender, "strength", 0) \div 4
    IN  [damage |-> Max(1, atk - mitigation),
         attacker |-> IF flagged
                      THEN [k \in (DOMAIN attacker) \ {"_last_ability"} |-> attacker[k]]
                      ELSE attacker]

\* The abilities as [character, enemy, damage].
warrior_power_strike(c, enemy) ==
    LET dmg == Max(1, Get(c, "strength", 0) * 2 - (Get(enemy, "strength", 0) \div 4))
    IN  [character |-> c,
         enemy |-> Set(enemy, "health", Max(0, Get(enemy, "health", 0) - dmg)),
         damage |-> dmg]

\* Mutant: the fireball is cast with strength instead of magic.
mage_fireball_UsesStrength(c, enemy) ==
    LET dmg == Max(1, Get(c, "strength", 0) * 2 - (Get(enemy, "strength", 0) \div 4))
    IN  [character |-> Set(c, "_last_ability", "mage_fireball"),
         enemy |-> Set(enemy, "health", Max(0, Get(enemy, "health", 0) - dmg)),
         damage |-> dmg]

mage_fireball(c, enemy) ==
    LET dmg == Max(1, Get(c, "magic", 0) * 2 - (Get(enemy, "strength", 0) \div 4))
    IN  [character |-> Set(c, "_last_ability", "mage_fireball"),
         enemy |-> Set(enemy, "health", Max(0, Get(enemy, "health", 0) - dmg)),
         damage |-> dmg]

\* critical: the outcome of random.random() < 0.5
rogue_critical_strike(c, enemy, critical) ==
    LET dmg == IF critical
               THEN Max(1, Get(c, "strength", 0) * 3
                             - (Get(enemy, "strength", 0) \div 4))
               ELSE Max(1, Get(c, "strength", 0)
                             - (Get(enemy, "strength", 0) \div 4))
    IN  [character |-> c,
         enemy |-> Set(enemy, "health", Max(0, Get(enemy, "health", 0) - dmg)),
         damage |-> dmg]

\* Mutant: the two rewards change places.
get_victory_rewards_Swapped(enemy) ==
    [xp |-> Get(enemy, "gold_reward", 0), gold |-> Get(enemy, "xp_reward", 0)]

get_victory_rewards(enemy) ==
    [xp |-> Get(enemy, "xp_reward", 0), gold |-> Get(enemy, "gold_reward", 0)]

can_character_fight(c) ==
    Ok(c, Bool(Get(c, "health", 0) > 0 /\ ~Get(c, "in_battle", FALSE)))

cleric_heal(c) ==
    LET heal_amt == 30
        old_hp == Get(c, "health", 0)
        max_hp == Get(c, "max_health", old_hp)
        new_hp == Min(max_hp, old_hp + heal_amt)
    IN  Ok(Set(c, "health", new_hp),
           [type |-> "str", str |-> "Heal", actual_heal |-> new_hp - old_hp])

\* use_special_ability as [character, enemy, damage, ability, raised]; the
\* four class names are their own title-case.
use_special_ability(c, enemy, critical) ==
    LET cls == Get(c, "class", None)
        Used(ability, out) ==
            [character |-> out.character, enemy |-> out.enemy,
             damage |-> out.damage, ability |-> ability, raised |-> "none"]
    IN  IF cls = "Warrior"
        THEN Used("warrior_power_strike", warrior_power_strike(c, enemy))
        ELSE IF cls = "Mage"
        THEN Used("mage_fireball", mage_fireball(c, enemy))
        ELSE IF cls = "Rogue"
        THEN Used("rogue_critical_strike", rogue_critical_strike(c, enemy, critical))
        ELSE IF cls = "Cleric"
        THEN Used("cleric_heal",
                  [character |-> cleric_heal(c).c, enemy |-> enemy, damage |-> 0])
        ELSE [character |-> c, enemy |-> enemy, damage |-> 0, ability |-> "none",
              raised |-> "AbilityOnCooldownError"]

\* Mutant: the test of the enemy's health (line 254) left out.
check_battle_end_IgnoresEnemy(b, c) ==
    IF Get(c, "health", 0) <= 0
    THEN [combat_active |-> FALSE, result |-> "enemy"]
    ELSE IF b.battle_end_state = "escaped"
    THEN [combat_active |-> b.combat_active, result |-> "escaped"]
    ELSE [combat_active |-> b.combat_active, result |-> None]

\* Mutant: the test of the escape flag (line 263) left out.
check_battle_end_IgnoresEscape(b, c) ==
    IF Get(b.enemy, "health", 0) <= 0
    THEN [combat_active |-> FALSE, result |-> "player"]
    ELSE IF Get(c, "health", 0) <= 0
    THEN [combat_active |-> FALSE, result |-> "enemy"]
    ELSE [combat_active |-> b.combat_active, result |-> None]

\* SimpleBattle.check_battle_end as [combat_active, result] for the battle b
\* and the character c.
check_battle_end(b, c) ==
    IF Get(b.enemy, "health", 0) <= 0
    THEN [combat_active |-> FALSE, result |-> "player"]
    ELSE IF Get(c, "health", 0) <= 0
    THEN [combat_active |-> FALSE, result |-> "enemy"]
    ELSE IF b.battle_end_state = "escaped"
    THEN [combat_active |-> b.combat_active, result |-> "escaped"]
    ELSE [combat_active |-> b.combat_active, result |-> None]

(* ------------------------------------------------------------------ *)
(* Inputs and bounds                                                   *)
(* ------------------------------------------------------------------ *)

\* No experience is granted once this level is reached.
MaxLevel == 3

\* Gold is not credited through add_gold beyond this total.
MaxGold == 120

Classes == DOMAIN CHARACTER_CLASSES

XpAmounts == {0, 50, 100, 300}

GoldDeltas == {-60, -25, 25}

HealAmounts == {-20, 0, 10, 30}

DamageAmounts == {30, 200}

\* The catalog's quests and one identifier the catalog does not hold.
QuestIds == (DOMAIN QuestData) \cup {"lost_quest"}

ItemIds == DOMAIN ItemData

\* The inventory operations of one run.
MaxInventoryOps == 2

\* The gold operations of one run.
MaxLedgerOps == 3

\* The entries kept of the list a prerequisite walk builds; a walk over
\* distinct quests of a catalog holds fewer.  Of the entries appended beyond
\* these, walk.dropped keeps the parity of their number.
MaxChain == 4

\* What a prerequisite field may hold: "NONE", a quest of the catalog, or an
\* identifier the catalog does not hold.
PrerequisiteValues == {"NONE", "lost_quest"} \cup DOMAIN QuestData

\* Every catalog over the three quests, cyclic ones included.
Catalogs ==
    {[q \in DOMAIN QuestData |-> [QuestData[q] EXCEPT !.prerequisite = p[q]]] :
        p \in [DOMAIN QuestData -> PrerequisiteValues]}

EnemyTypes == {"goblin", "orc", "dragon"}

\* The damage a character has taken before it meets the enemy.
Wounds == {0, 30, 200}

\* The texts a quest file gives after PREREQUISITE: and REQUIRED_LEVEL: .
PrerequisiteTexts ==
    {<<" ", "N", "O", "N", "E">>, <<" ", "n", "o", "n", "e">>, <<" ", "1">>,
     <<" ", "2">>, <<" ", "7">>, <<" ", "x">>}

LevelTexts == {<<" ", "1">>, <<" ", "2">>}

\* A block of a quest file, and the block without its PREREQUISITE line.
QuestBlock(id, level, prerequisite) ==
    <<[key |-> "QUEST_ID", val |-> <<" ", id>>],
      [key |-> "TITLE", val |-> <<" ", "T">>],
      [key |-> "DESCRIPTION", val |-> <<" ", "D">>],
      [key |-> "REWARD_XP", val |-> <<" ", "5", "0">>],
      [key |-> "REWARD_GOLD", val |-> <<" ", "2", "0">>],
      [key |-> "REQUIRED_LEVEL", val |-> level],
      [key |-> "PREREQUISITE", val |-> prerequisite]>>

QuestBlocks(id) ==
    {QuestBlock(id, l, p) : l \in LevelTexts, p \in PrerequisiteTexts}
        \cup {SubSeq(QuestBlock(id, <<" ", "1">>, <<>>), 1, 6)}

\* The quest files: a path that does not exist, the files of one quest, and
\* the files of two quests with the ids 1 and 2, in this order, or 1 twice.
QuestFiles ==
    {[exists |-> FALSE, blocks |-> <<>>]}
        \cup {[exists |-> TRUE, blocks |-> <<a>>] : a \in QuestBlocks("1")}
        \cup {[exists |-> TRUE, blocks |-> <<a, b>>] :
                    a \in QuestBlocks("1"),
                    b \in QuestBlocks("1") \cup QuestBlocks("2")}

\* The item files: the blocks differ in the TYPE and EFFECT lines; EFFECT
\* values without colon or without a number, and a type that is none of the
\* three, are among them, and so is a block without its EFFECT line.
TypeTexts ==
    {<<" ">> \o TypeSpelling.weapon, <<" ", "W">> \o Tail(TypeSpelling.weapon),
     <<" ">> \o TypeSpelling.armor, <<" ">> \o TypeSpelling.consumable,
     <<" ">> \o TypeSpelling.ring}

EffectTexts ==
    {<<" ">> \o KeySpelling.strength \o <<":", "5">>,
     <<" ">> \o KeySpelling.health \o <<":", " ", "3", "0">>,
     <<" ">> \o KeySpelling.health,
     <<" ">> \o KeySpelling.health \o <<":", "x">>}

ItemBlock(id, type, effect) ==
    <<[key |-> "ITEM_ID", val |-> <<" ", id>>],
      [key |-> "NAME", val |-> <<" ", "N">>],
      [key |-> "TYPE", val |-> type],
      [key |-> "COST", val |-> <<" ", "4", "0">>],
      [key |-> "DESCRIPTION", val |-> <<" ", "D">>],
      [key |-> "EFFECT", val |-> effect]>>

ItemBlocks(id) ==
    {ItemBlock(id, t, f) : t \in TypeTexts, f \in EffectTexts}
        \cup {SubSeq(ItemBlock(id, <<" ">> \o TypeSpelling.armor, <<>>), 1, 5)}

\* The item files: a path that does not exist, the files of one item, and
\* the files of two items with the ids 1 and 2, in this order, or 1 twice.
ItemFiles ==
    {[exists |-> FALSE, blocks |-> <<>>]}
        \cup {[exists |-> TRUE, blocks |-> <<a>>] : a \in ItemBlocks("1")}
        \cup {[exists |-> TRUE, blocks |-> <<a, b>>] :
                    a \in ItemBlocks("1"),
                    b \in ItemBlocks("1") \cup ItemBlocks("2")}

\* The identifiers a loaded catalog is asked for.
LoadedIds == {"1", "2", "7"}

\* An inventory of n items: two swords, an armor, then potions.
Stock(n) ==
    [i \in 1..n |-> IF i <= 2 THEN "rusty_sword"
                    ELSE IF i = 3 THEN "leather_armor" ELSE "small_potion"]

Inventories == {<<>>, Stock(4), Stock(MAX_INVENTORY_SIZE - 1), Stock(MAX_INVENTORY_SIZE)}

(* ------------------------------------------------------------------ *)
(* Actions: one call of one operation on the character                 *)
(* ------------------------------------------------------------------ *)

\* result: the operation called, its identifier argument ("" when it has
\* none), its integer argument (0 when it has none) and its outcome.
Call(op, id, amount, out) ==
    /\ UNCHANGED <<walk, battle, all_quests, all_items>>
    /\ character' = out.c
    /\ result' = [op |-> op, id |-> id, amount |-> amount,
                  raised |-> out.raised, ret |-> out.ret]

GainExperience ==
    \E a \in XpAmounts :
        /\ character.level < MaxLevel
        /\ Call("gain_experience", "", a, gain_experience(character, a))

AddGold ==
    \E d \in GoldDeltas :
        /\ character.gold + d <= MaxGold
        /\ Call("add_gold", "", d, add_gold(character, d))

HealCharacter ==
    \E a \in HealAmounts :
        Call("heal_character", "", a, heal_character(character, a))

ReviveCharacter ==
    Call("revive_character", "", 0, revive_character(character))

AcceptQuest ==
    \E q \in QuestIds :
        Call("accept_quest", q, 0, accept_quest(character, q, QuestData))

CompleteQuest ==
    \E q \in QuestIds :
        Call("complete_quest", q, 0, complete_quest(character, q, QuestData))

AbandonQuest ==
    \E q \in QuestIds :
        Call("abandon_quest", q, 0, abandon_quest(character, q))

GetAvailableQuests ==
    Call("get_available_quests", "", 0, get_available_quests(character, QuestData))

CanAcceptQuest ==
    \E q \in QuestIds :
        Call("can_accept_quest", q, 0, can_accept_quest(character, q, QuestData))

\* Lines 204-209: the test of quest_id and the locals.
ChainEnter ==
    /\ walk.pc = "enter"
    /\ walk' = IF walk.quest_id \notin DOMAIN walk.quest_data_dict
               THEN [walk EXCEPT !.pc = "raised", !.raised = "QuestNotFoundError"]
               ELSE [walk EXCEPT !.pc = "loop", !.chain = <<>>,
                                 !.current = walk.quest_id]
    /\ UNCHANGED <<character, result, ops, battle, all_quests, all_items>>

\* Lines 212-232: one iteration of the while True loop and, when it breaks,
\* the reverse and the return.
ChainStep ==
    /\ walk.pc = "loop"
    /\ LET quest_data_dict == walk.quest_data_dict
           current == walk.current
           kept == Len(walk.chain) < MaxChain
           chain == IF kept THEN Append(walk.chain, current) ELSE walk.chain
           dropped == IF kept THEN walk.dropped ELSE 1 - walk.dropped
       IN  walk' =
             IF current \notin DOMAIN quest_data_dict
             THEN [walk EXCEPT !.pc = "raised", !.raised = "QuestNotFoundError"]
             ELSE LET prereq == quest_data_dict[current].prerequisite IN
                  IF prereq = "NONE"
                  THEN [walk EXCEPT !.pc = "returned", !.chain = Reverse(chain)]
                  ELSE [walk EXCEPT !.chain = chain, !.dropped = dropped,
                                    !.current = prereq]
    /\ UNCHANGED <<character, result, ops, battle, all_quests, all_items>>

\* Mutant: the health test of lines 127-128 left out.
StartBattle_NoDeadCheck ==
    /\ battle.pc = "new"
    /\ battle' = [battle EXCEPT !.pc = "player", !.cooldown_remaining = 0]
    /\ UNCHANGED <<character, result, ops, walk, all_quests, all_items>>

\* start_battle up to the loop (lines 127-131).
StartBattle ==
    /\ battle.pc = "new"
    /\ battle' = IF Get(character, "health", 0) <= 0
                 THEN [battle EXCEPT !.pc = "raised",
                                     !.raised = "CharacterDeadError"]
                 ELSE [battle EXCEPT !.pc = "player", !.cooldown_remaining = 0]
    /\ UNCHANGED <<character, result, ops, walk, all_quests, all_items>>

\* The loop test, player_turn and the check after it (lines 133-139), for
\* each outcome of the three random rolls player_turn can make.
PlayerTurn ==
    /\ battle.pc = "player"
    /\ IF ~battle.combat_active
       THEN /\ battle' = [battle EXCEPT !.pc = "leave"]
            /\ UNCHANGED character
       ELSE \E try_escape, success, critical \in BOOLEAN :
            LET low == LowHealth(character)
                escaped == low /\ try_escape /\ success
                ability == use_special_ability(character, battle.enemy, critical)
                basic == calculate_damage(character, battle.enemy, TRUE)
                \* lines 194-213
                acted ==
                  IF battle.cooldown_remaining = 0 /\ ability.raised = "none"
                  THEN [character |-> ability.character, enemy |-> ability.enemy,
                        cooldown_remaining |->
                            IF battle.char_class \in DOMAIN CLASS_COOLDOWNS
                            THEN CLASS_COOLDOWNS[battle.char_class]
                            ELSE battle.cooldown_remaining,
                        action |-> ability.ability, damage |-> ability.damage]
                  ELSE [character |-> basic.attacker,
                        enemy |-> apply_damage(battle.enemy, basic.damage).c,
                        cooldown_remaining |-> battle.cooldown_remaining,
                        action |-> "basic_attack", damage |-> basic.damage]
                turn == [actor |-> "player",
                         action |-> IF escaped THEN "escape" ELSE acted.action,
                         damage |-> IF escaped THEN 0 ELSE acted.damage,
                         escape_attempted |-> low /\ try_escape,
                         round |-> battle.turn_counter]
                b1 == IF escaped
                      THEN [battle EXCEPT !.combat_active = FALSE,
                                          !.battle_end_state = "escaped"]
                      ELSE [battle EXCEPT !.enemy = acted.enemy,
                                          !.cooldown_remaining = acted.cooldown_remaining,
                                          !.ability_round =
                                              IF acted.action = "basic_attack" THEN @
                                              ELSE battle.turn_counter]
                c1 == IF escaped THEN character ELSE acted.character
                end == check_battle_end(b1, c1)
                b2 == [b1 EXCEPT !.combat_active = end.combat_active,
                                 !.log = turn,
                                 !.player_turns = @ + 1]
            IN  /\ character' = c1
                /\ battle' = IF Truthy(end.result)
                             THEN [b2 EXCEPT !.winner = end.result, !.pc = "leave"]
                             ELSE [b2 EXCEPT !.pc = "enemy"]
    /\ UNCHANGED <<result, ops, walk, all_quests, all_items>>

\* enemy_turn, the check after it and the end of the round (lines 142-152).
EnemyTurn ==
    /\ battle.pc = "enemy"
    /\ IF ~battle.combat_active
       THEN /\ battle' = [battle EXCEPT !.pc = "raised",
                                        !.raised = "CombatNotActiveError"]
            /\ UNCHANGED character
       ELSE LET hit == calculate_damage(battle.enemy, character, FALSE)
                c1 == apply_damage(character, hit.damage).c
                b1 == [battle EXCEPT !.enemy = hit.attacker]
                end == check_battle_end(b1, c1)
                b2 == [b1 EXCEPT !.combat_active = end.combat_active,
                                 !.log = [actor |-> "enemy", action |-> "basic_attack",
                                          damage |-> hit.damage,
                                          escape_attempted |-> FALSE,
                                          round |-> battle.turn_counter],
                                 !.enemy_turns = @ + 1]
            IN  /\ character' = c1
                /\ battle' =
                     IF Truthy(end.result)
                     THEN [b2 EXCEPT !.winner = end.result, !.pc = "leave"]
                     ELSE [b2 EXCEPT
                              !.cooldown_remaining =
                                  IF @ > 0 THEN Max(0, @ - 1) ELSE @,
                              !.turn_counter = @ + 1,
                              !.pc = "player"]
    /\ UNCHANGED <<result, ops, walk, all_quests, all_items>>

\* The end of start_battle (lines 154-170); a read of winner before any
\* assignment to it is an UnboundLocalError.
LeaveBattle ==
    /\ battle.pc = "leave"
    /\ character' = Set(character, "in_battle", FALSE)
    /\ LET b1 == [battle EXCEPT !.combat_active = FALSE]
           rewards == get_victory_rewards(battle.enemy)
           Return(winner, xp, gold) ==
               [b1 EXCEPT !.pc = "returned",
                          !.ret = [winner |-> winner, xp_gained |-> xp,
                                   gold_gained |-> gold]]
       IN  battle' =
             IF battle.winner = "unbound"
             THEN [b1 EXCEPT !.pc = "raised", !.raised = "UnboundLocalError"]
             ELSE IF battle.winner = "player"
             THEN Return("player", rewards.xp, rewards.gold)
             ELSE IF battle.winner = "enemy" THEN Return("enemy", 0, 0)
             ELSE IF battle.winner = "escaped" THEN Return("escaped", 0, 0)
             ELSE Return("enemy", 0, 0)
    /\ UNCHANGED <<result, ops, walk, all_quests, all_items>>

CanCharacterFight ==
    Call("can_character_fight", "", 0, can_character_fight(character))

\* main.py line 362: all_quests = game_data.load_quests(), before anything
\* else is called; all_quests is assigned when load_quests returns.
LoadQuests ==
    /\ result.op = "create_character"
    /\ \E file \in QuestFiles :
         \E out \in {load_quests(file)} :
           /\ all_quests' = IF out.raised = "none" THEN out.quests ELSE all_quests
           /\ result' = [op |-> "load_quests", id |-> "", amount |-> 0,
                         raised |-> out.raised, ret |-> NoneValue]
    /\ UNCHANGED <<character, ops, walk, battle, all_items>>

\* The operations of quest_handler.py on the loaded catalog.
ValidateLoadedQuests ==
    /\ result.op # "create_character"
    /\ LET out == validate_quest_prerequisites(all_quests) IN
       Call("validate_quest_prerequisites", "", 0,
            [c |-> character, raised |-> out.raised, ret |-> out.ret])

AcceptLoadedQuest ==
    /\ result.op # "create_character"
    /\ \E q \in LoadedIds :
           Call("accept_quest", q, 0, accept_quest(character, q, all_quests))

GetAvailableLoadedQuests ==
    /\ result.op # "create_character"
    /\ Call("get_available_quests", "", 0,
            get_available_quests(character, all_quests))

\* get_quest_prerequisite_chain(q, all_quests) is called.
ChainCall ==
    /\ result.op # "create_character"
    /\ walk.pc \in {"idle", "returned", "raised"}
    /\ \E q \in LoadedIds :
           walk' = [walk EXCEPT !.quest_data_dict = all_quests, !.quest_id = q,
                                !.pc = "enter", !.current = "", !.chain = <<>>,
                                !.dropped = 0, !.raised = "none"]
    /\ UNCHANGED <<character, result, ops, battle, all_quests, all_items>>

\* all_items = game_data.load_items(), before the game starts.
LoadItems ==
    /\ result.op = "create_character"
    /\ \E file \in ItemFiles :
         \E out \in {load_items(file)} :
           /\ all_items' = IF out.raised = "none" THEN out.items ELSE all_items
           /\ result' = [op |-> "load_items", id |-> "", amount |-> 0,
                         raised |-> out.raised, ret |-> NoneValue]
    /\ UNCHANGED <<character, ops, walk, battle, all_quests>>

\* The ledger operations are called with the record of a loaded item.
PurchaseLoadedItem ==
    /\ result.op # "create_character"
    /\ \E i \in DOMAIN all_items :
           Call("purchase_item", i, 0, purchase_item(character, i, all_items[i]))

UseLoadedItem ==
    /\ result.op # "create_character"
    /\ \E i \in DOMAIN all_items :
           Call("use_item", i, 0, use_item(character, i, all_items[i]))

EquipLoadedWeapon ==
    /\ result.op # "create_character"
    /\ \E i \in DOMAIN all_items :
           Call("equip_weapon", i, 0, equip_weapon(character, i, all_items[i]))

EquipLoadedArmor ==
    /\ result.op # "create_character"
    /\ \E i \in DOMAIN all_items :
           Call("equip_armor", i, 0, equip_armor(character, i, all_items[i]))

AddItem ==
    \E i \in ItemIds :
        Call("add_item_to_inventory", i, 0, add_item_to_inventory(character, i))

RemoveItem ==
    \E i \in ItemIds :
        Call("remove_item_from_inventory", i, 0,
             remove_item_from_inventory(character, i))

UseItem ==
    \E i \in ItemIds :
        Call("use_item", i, 0, use_item(character, i, ItemData[i]))

EquipWeapon ==
    \E i \in ItemIds :
        Call("equip_weapon", i, 0, equip_weapon(character, i, ItemData[i]))

EquipArmor ==
    \E i \in ItemIds :
        Call("equip_armor", i, 0, equip_armor(character, i, ItemData[i]))

\* equip_weapon and equip_armor with an item of the catalog Armory.
EquipGearWeapon ==
    \E i \in DOMAIN Armory :
        Call("equip_weapon", i, 0, equip_weapon(character, i, Armory[i]))

EquipGearArmor ==
    \E i \in DOMAIN Armory :
        Call("equip_armor", i, 0, equip_armor(character, i, Armory[i]))

UnequipWeapon == Call("unequip_weapon", "", 0, unequip_weapon(character))

UnequipArmor == Call("unequip_armor", "", 0, unequip_armor(character))

PurchaseItem ==
    \E i \in ItemIds :
        Call("purchase_item", i, 0, purchase_item(character, i, ItemData[i]))

SellItem ==
    \E i \in ItemIds :
        Call("sell_item", i, 0, sell_item(character, i, ItemData[i]))

ApplyDamage ==
    \E d \in DamageAmounts :
        Call("apply_damage", "", d, apply_damage(character, d))

ClericHeal == Call("cleric_heal", "", 0, cleric_heal(character))

(* ------------------------------------------------------------------ *)
(* Specifications                                                      *)
(* ------------------------------------------------------------------ *)

\* No call of get_quest_prerequisite_chain is under way.
NoWalk ==
    [quest_data_dict |-> QuestData, quest_id |-> "", pc |-> "idle",
     current |-> "", chain |-> <<>>, dropped |-> 0, raised |-> "none"]

\* What a turn writes to the battle log.
NoTurn ==
    [actor |-> "none", action |-> "none", damage |-> 0,
     escape_attempted |-> FALSE, round |-> 0]

\* No SimpleBattle exists.
NoBattle ==
    [pc |-> "idle", enemy |-> create_enemy("goblin"), combat_active |-> FALSE,
     turn_counter |-> 0, cooldown_remaining |-> 0, battle_end_state |-> None,
     winner |-> "unbound", raised |-> "none",
     ret |-> [winner |-> None, xp_gained |-> 0, gold_gained |-> 0],
     log |-> NoTurn, player_turns |-> 0, enemy_turns |-> 0,
     ability_round |-> 0, entered |-> create_character("Warrior"),
     char_class |-> None, ended |-> FALSE]

\* start_battle is called once more on a SimpleBattle whose start_battle has
\* returned or raised: the local winner is unbound again and control runs
\* up to the loop (lines 127-131).  ended tells whether the battle had ended
\* (combat_active was False) when the call was made.
StartBattleAgain ==
    /\ battle.pc \in {"returned", "raised"}
    /\ LET b1 == [battle EXCEPT !.ended = ~battle.combat_active, !.winner = "unbound",
                                !.raised = "none", !.log = NoTurn,
                                !.ret = NoBattle.ret]
       IN  battle' = IF Get(character, "health", 0) <= 0
                     THEN [b1 EXCEPT !.pc = "raised",
                                     !.raised = "CharacterDeadError"]
                     ELSE [b1 EXCEPT !.pc = "player", !.cooldown_remaining = 0]
    /\ UNCHANGED <<character, result, ops, walk, all_quests, all_items>>

\* A character as create_character returns it.
InitFresh ==
    /\ \E cls \in Classes :
           /\ character = create_character(cls)
           /\ result = [op |-> "create_character", id |-> cls, amount |-> 0,
                        raised |-> "none", ret |-> NoneValue]
    /\ ops = 0
    /\ walk = NoWalk
    /\ battle = NoBattle
    /\ all_quests = <<>>
    /\ all_items = <<>>

\* Quest operations on a character that also gains experience.
NextQuest ==
    \/ AcceptQuest /\ UNCHANGED ops
    \/ CompleteQuest /\ UNCHANGED ops
    \/ AbandonQuest /\ UNCHANGED ops
    \/ GainExperience /\ UNCHANGED ops

SpecQuest == InitFresh /\ [][NextQuest]_vars

\* The quest operations together with the two queries of the quest board.
NextQuestBoard ==
    \/ AcceptQuest /\ UNCHANGED ops
    \/ CompleteQuest /\ UNCHANGED ops
    \/ AbandonQuest /\ UNCHANGED ops
    \/ GainExperience /\ UNCHANGED ops
    \/ GetAvailableQuests /\ UNCHANGED ops
    \/ CanAcceptQuest /\ UNCHANGED ops

SpecQuestBoard == InitFresh /\ [][NextQuestBoard]_vars

\* A character that carries items, has spent gold or not and has equipped
\* nothing, a weapon, or a weapon and an armor; the caller may have attached
\* the item catalog to it under "item_data", the key equip and unequip read.
InitStocked ==
    /\ \E inv \in Inventories, attached \in BOOLEAN, spent \in {0, 30},
          slots \in 0..2 :
           LET c0 == [create_character("Warrior") EXCEPT !.inventory = inv]
               c1 == IF attached THEN Set(c0, "item_data", "ItemData") ELSE c0
               c2 == add_gold(c1, 0 - spent).c
               c3 == IF slots >= 1
                     THEN equip_weapon(c2, "rusty_sword", ItemData.rusty_sword).c
                     ELSE c2
               c4 == IF slots >= 2
                     THEN equip_armor(c3, "leather_armor", ItemData.leather_armor).c
                     ELSE c3
           IN  /\ character = c4
               /\ result = [op |-> "create_character", id |-> "Warrior",
                            amount |-> 0, raised |-> "none", ret |-> NoneValue]
    /\ ops = 0
    /\ walk = NoWalk
    /\ battle = NoBattle
    /\ all_quests = <<>>
    /\ all_items = <<>>

InventoryTick == ops < MaxInventoryOps /\ ops' = ops + 1

\* The inventory, equipment and shop operations.
NextInventory ==
    \/ AddItem /\ InventoryTick
    \/ RemoveItem /\ InventoryTick
    \/ UseItem /\ InventoryTick
    \/ EquipWeapon /\ InventoryTick
    \/ EquipArmor /\ InventoryTick
    \/ UnequipWeapon /\ InventoryTick
    \/ UnequipArmor /\ InventoryTick
    \/ PurchaseItem /\ InventoryTick
    \/ SellItem /\ InventoryTick

SpecInventory == InitStocked /\ [][NextInventory]_vars

LedgerTick == ops < MaxLedgerOps /\ ops' = ops + 1

\* The operations that change gold.
NextLedger ==
    \/ AddGold /\ LedgerTick
    \/ PurchaseItem /\ LedgerTick
    \/ SellItem /\ LedgerTick
    \/ AcceptQuest /\ LedgerTick
    \/ CompleteQuest /\ LedgerTick

SpecLedger == InitFresh /\ [][NextLedger]_vars

\* Experience, damage, healing and revival.
NextProgress ==
    \/ GainExperience /\ UNCHANGED ops
    \/ HealCharacter /\ UNCHANGED ops
    \/ ReviveCharacter /\ UNCHANGED ops
    \/ ApplyDamage /\ UNCHANGED ops

SpecProgress == InitFresh /\ [][NextProgress]_vars

\* get_quest_prerequisite_chain(quest_id, quest_data_dict) is called.
InitChain ==
    /\ character = create_character("Warrior")
    /\ result = [op |-> "create_character", id |-> "Warrior", amount |-> 0,
                 raised |-> "none", ret |-> NoneValue]
    /\ ops = 0
    /\ battle = NoBattle
    /\ all_quests = <<>>
    /\ all_items = <<>>
    /\ \E d \in Catalogs, q \in QuestIds :
           walk = [NoWalk EXCEPT !.quest_data_dict = d, !.quest_id = q,
                                 !.pc = "enter"]

NextChain ==
    \/ ChainEnter
    \/ ChainStep

\* The interpreter runs the call on: a loop iteration that can be taken is
\* taken.
SpecChain == InitChain /\ [][NextChain]_vars /\ WF_vars(NextChain)

\* A character that carries two potions, an elixir and a sword.
InitSatchel ==
    /\ \E cls \in Classes :
           /\ character = [create_character(cls) EXCEPT
                              !.inventory = <<"small_potion", "strength_elixir",
                                              "rusty_sword", "small_potion">>]
           /\ result = [op |-> "create_character", id |-> cls, amount |-> 0,
                        raised |-> "none", ret |-> NoneValue]
    /\ ops = 0
    /\ walk = NoWalk
    /\ battle = NoBattle
    /\ all_quests = <<>>
    /\ all_items = <<>>

\* Items are used, with damage in between.
NextConsume ==
    \/ UseItem /\ UNCHANGED ops
    \/ ApplyDamage /\ UNCHANGED ops

SpecConsume == InitSatchel /\ [][NextConsume]_vars

\* SimpleBattle(character, enemy) has been constructed (lines 104-119) for a
\* character of any class, wounded or not, and an enemy of any type.
InitBattle ==
    /\ result = [op |-> "create_character", id |-> "", amount |-> 0,
                 raised |-> "none", ret |-> NoneValue]
    /\ ops = 0
    /\ walk = NoWalk
    /\ all_quests = <<>>
    /\ all_items = <<>>
    /\ \E cls \in Classes, w \in Wounds, et \in EnemyTypes :
           LET c == Set(apply_damage(create_character(cls), w).c, "in_battle", TRUE)
           IN  /\ character = c
               /\ battle = [NoBattle EXCEPT
                               !.pc = "new", !.enemy = create_enemy(et),
                               !.combat_active = TRUE, !.turn_counter = 1,
                               !.entered = c, !.char_class = Get(c, "class", None)]

NextBattle ==
    \/ StartBattle
    \/ PlayerTurn
    \/ EnemyTurn
    \/ LeaveBattle

\* The interpreter runs start_battle on: a turn that can be taken is taken.
SpecBattle == InitBattle /\ [][NextBattle]_vars /\ WF_vars(NextBattle)

\* start_battle has returned or raised.
BattleOver == battle.pc \in {"returned", "raised"}

\* A battle and what the game does with the character once it is over: the
\* character gains experience, is revived, is asked whether it can fight, and
\* start_battle is called again.
NextArena ==
    \/ StartBattle
    \/ PlayerTurn
    \/ EnemyTurn
    \/ LeaveBattle
    \/ StartBattleAgain
    \/ BattleOver /\ GainExperience /\ UNCHANGED ops
    \/ BattleOver /\ ReviveCharacter /\ UNCHANGED ops
    \/ BattleOver /\ CanCharacterFight /\ UNCHANGED ops

SpecArena == InitBattle /\ [][NextArena]_vars

\* Items are used, with damage, healing and revival in between.
NextMortal ==
    \/ UseItem /\ UNCHANGED ops
    \/ ApplyDamage /\ UNCHANGED ops
    \/ HealCharacter /\ UNCHANGED ops
    \/ ReviveCharacter /\ UNCHANGED ops

SpecMortal == InitSatchel /\ [][NextMortal]_vars

\* A character, wounded or not, that carries a sword and two pieces of armor
\* and has the catalog Armory attached.
InitArmory ==
    /\ \E cls \in Classes, w \in Wounds :
           LET c0 == [create_character(cls) EXCEPT
                         !.inventory = <<"rusty_sword", "life_charm",
                                         "leather_armor">>]
               c1 == Set(c0, "item_data", "Armory")
           IN  /\ character = apply_damage(c1, w).c
               /\ result = [op |-> "create_character", id |-> cls, amount |-> 0,
                            raised |-> "none", ret |-> NoneValue]
    /\ ops = 0
    /\ walk = NoWalk
    /\ battle = NoBattle
    /\ all_quests = <<>>
    /\ all_items = <<>>

\* Equipment is put on and taken off.
NextArmory ==
    \/ EquipGearWeapon /\ UNCHANGED ops
    \/ EquipGearArmor /\ UNCHANGED ops
    \/ UnequipWeapon /\ UNCHANGED ops
    \/ UnequipArmor /\ UNCHANGED ops

SpecArmory == InitArmory /\ [][NextArmory]_vars

\* The game loads the quest file, then the quest operations are called with
\* the catalog it gave.
NextQuestCatalog ==
    \/ LoadQuests
    \/ ValidateLoadedQuests /\ UNCHANGED ops
    \/ AcceptLoadedQuest /\ UNCHANGED ops
    \/ GetAvailableLoadedQuests /\ UNCHANGED ops
    \/ ChainCall
    \/ ChainEnter
    \/ ChainStep

SpecQuestCatalog == InitFresh /\ [][NextQuestCatalog]_vars

\* The items are loaded; the character buys loaded items and uses and
\* equips them.
NextItemCatalog ==
    \/ LoadItems
    \/ PurchaseLoadedItem /\ UNCHANGED ops
    \/ UseLoadedItem /\ UNCHANGED ops
    \/ EquipLoadedWeapon /\ UNCHANGED ops
    \/ EquipLoadedArmor /\ UNCHANGED ops

SpecItemCatalog == InitFresh /\ [][NextItemCatalog]_vars

\* A character that carries three potions.
InitHealer ==
    /\ \E cls \in Classes :
           /\ character = [create_character(cls) EXCEPT
                              !.inventory = <<"small_potion", "small_potion",
                                              "small_potion">>]
           /\ result = [op |-> "create_character", id |-> cls, amount |-> 0,
                        raised |-> "none", ret |-> NoneValue]
    /\ ops = 0
    /\ walk = NoWalk
    /\ battle = NoBattle
    /\ all_quests = <<>>
    /\ all_items = <<>>

\* The healing operations, and damage in between.
NextHeal ==
    \/ HealCharacter /\ UNCHANGED ops
    \/ ClericHeal /\ UNCHANGED ops
    \/ UseItem /\ UNCHANGED ops
    \/ ApplyDamage /\ UNCHANGED ops

SpecHeal == InitHealer /\ [][NextHeal]_vars

(* ------------------------------------------------------------------ *)
(* Claims                                                              *)
(* ------------------------------------------------------------------ *)

\* C1: gain_experience on a living character of level >= 1 with a
\* non-negative amount returns (it does not raise) and leaves
\* experience < level * 100.
C1_ExperienceBelowThreshold ==
    [][(/\ result'.op = "gain_experience"
        /\ ~is_character_dead(character)
        /\ character.level >= 1
        /\ result'.amount >= 0)
       => (/\ result'.raised = "none"
           /\ character'.experience < character'.level * 100)]_vars

\* C1 witness: one call that crossed two thresholds has returned.
C1_Witness ==
    /\ result.op = "gain_experience"
    /\ result.raised = "none"
    /\ result.amount = 300
    /\ character.level = 3
    /\ character.experience = 0

\* C2: active_quests and completed_quests are disjoint and neither holds a
\* quest identifier twice.
C2_QuestListsDisjoint ==
    LET active == character.active_quests
        completed == character.completed_quests
        NoDuplicate(list) ==
            \A i, j \in 1..Len(list) : list[i] = list[j] => i = j
    IN  /\ \A i \in 1..Len(active) : ~In(active[i], completed)
        /\ NoDuplicate(active)
        /\ NoDuplicate(completed)

\* C2 witness: two quests completed, one active, and the last call failed.
C2_Witness ==
    /\ Len(character.completed_quests) = 2
    /\ Len(character.active_quests) = 1
    /\ result.op \in {"accept_quest", "complete_quest", "abandon_quest"}
    /\ result.raised # "none"

\* C3: no operation takes an inventory of at most 20 items beyond 20 items,
\* and add_item_to_inventory on 20 items raises InventoryFullError and
\* changes nothing.
C3_InventoryWithinCapacity ==
    [][/\ Len(character.inventory) <= MAX_INVENTORY_SIZE
          => Len(character'.inventory) <= MAX_INVENTORY_SIZE
       /\ (/\ result'.op = "add_item_to_inventory"
           /\ Len(character.inventory) = MAX_INVENTORY_SIZE)
          => (/\ result'.raised = "InventoryFullError"
              /\ character' = character)]_vars

\* C3 witness: an add was refused on a full inventory.
C3_Witness ==
    /\ result.op = "add_item_to_inventory"
    /\ result.raised = "InventoryFullError"
    /\ Len(character.inventory) = MAX_INVENTORY_SIZE

\* C4: add_gold fails and keeps gold when gold + delta < 0, and otherwise
\* sets gold to gold + delta and returns it; no gold operation takes gold
\* below 0.
C4_GoldNeverNegative ==
    [][/\ character.gold >= 0 => character'.gold >= 0
       /\ result'.op = "add_gold"
          => LET delta == result'.amount IN
             IF character.gold + delta < 0
             THEN result'.raised # "none" /\ character' = character
             ELSE /\ result'.raised = "none"
                  /\ character'.gold = character.gold + delta
                  /\ result'.ret = Num(character.gold + delta)]_vars

\* C4 witness: an overdraw was refused.
C4_Witness ==
    /\ result.op = "add_gold"
    /\ result.raised # "none"
    /\ character.gold + result.amount < 0

\* C5 as claimed: every healing operation, for every integer amount, takes
\* a health within 0..max_health to a health within 0..max_health.
C5_HealthStaysInRange ==
    [][(/\ result'.op \in {"heal_character", "cleric_heal", "use_item"}
        /\ 0 <= character.health
        /\ character.health <= character.max_health)
       => (/\ 0 <= character'.health
           /\ character'.health <= character'.max_health)]_vars

\* C6: a quest enters completed_quests only by complete_quest on a quest
\* that is active, and active_quests only by accept_quest; complete_quest on
\* an unknown quest raises QuestNotFoundError, on a known quest that is not
\* active QuestNotActiveError, both without changing the character.
C6_CompleteOnlyAfterAccept ==
    [][/\ \A q \in QuestIds :
            (In(q, character'.completed_quests)
             /\ ~In(q, character.completed_quests))
            => (/\ result'.op = "complete_quest"
                /\ result'.id = q
                /\ result'.raised = "none"
                /\ In(q, character.active_quests))
       /\ \A q \in QuestIds :
            (In(q, character'.active_quests) /\ ~In(q, character.active_quests))
            => (/\ result'.op = "accept_quest"
                /\ result'.id = q
                /\ result'.raised = "none")
       /\ result'.op = "complete_quest"
          => LET q == result'.id IN
             /\ q \notin DOMAIN QuestData
                => (result'.raised = "QuestNotFoundError" /\ character' = character)
             /\ (q \in DOMAIN QuestData /\ ~In(q, character.active_quests))
                => (result'.raised = "QuestNotActiveError" /\ character' = character)
      ]_vars

\* C6 witness: a quest has just been completed.
C6_Witness ==
    /\ result.op = "complete_quest"
    /\ result.raised = "none"
    /\ In(result.id, character.completed_quests)

\* C7: a completed quest stays completed and never becomes active again;
\* accept_quest on it raises QuestAlreadyCompletedError.
C7_CompletedIsTerminal ==
    [][\A q \in QuestIds :
         In(q, character.completed_quests)
         => (/\ In(q, character'.completed_quests)
             /\ ~In(q, character'.active_quests)
             /\ (result'.op = "accept_quest" /\ result'.id = q)
                => result'.raised = "QuestAlreadyCompletedError")]_vars

\* C7 witness: a completed quest was offered to accept_quest and refused.
C7_Witness ==
    /\ result.op = "accept_quest"
    /\ result.raised = "QuestAlreadyCompletedError"
    /\ In(result.id, character.completed_quests)

\* C8: accept_quest succeeds exactly when the quest is in the catalog, not
\* completed, not active, within the character's level and its prerequisite
\* is unset or completed; on success it appends the quest to active_quests
\* and changes nothing else, on failure it changes nothing.
C8_AcceptExactlyWhenEligible ==
    [][result'.op = "accept_quest"
       => LET q == result'.id
              eligible ==
                  /\ q \in DOMAIN QuestData
                  /\ ~In(q, character.completed_quests)
                  /\ ~In(q, character.active_quests)
                  /\ character.level >= QuestData[q].required_level
                  /\ \/ QuestData[q].prerequisite = "NONE"
                     \/ In(QuestData[q].prerequisite, character.completed_quests)
          IN  /\ (result'.raised = "none") <=> eligible
              /\ result'.raised = "none"
                 => character' = [character EXCEPT
                                     !.active_quests = Append(@, q)]
              /\ result'.raised # "none" => character' = character]_vars

\* C8 witness: a quest with a prerequisite and a level gate was accepted.
C8_Witness ==
    /\ result.op = "accept_quest"
    /\ result.raised = "none"
    /\ result.id = "goblin_trouble"
    /\ In("goblin_trouble", character.active_quests)

\* C9 as claimed: accept_quest reports the first failing check in the order
\* unknown, completed, active, level, prerequisite, an active quest being
\* reported as QuestAlreadyActiveError.
C9_AcceptErrorOrder ==
    [][result'.op = "accept_quest"
       => LET q == result'.id IN
          result'.raised =
            IF q \notin DOMAIN QuestData THEN "QuestNotFoundError"
            ELSE IF In(q, character.completed_quests)
                 THEN "QuestAlreadyCompletedError"
            ELSE IF In(q, character.active_quests)
                 THEN "QuestAlreadyActiveError"
            ELSE IF character.level < QuestData[q].required_level
                 THEN "InsufficientLevelError"
            ELSE IF /\ QuestData[q].prerequisite # "NONE"
                    /\ ~In(QuestData[q].prerequisite, character.completed_quests)
                 THEN "QuestRequirementsNotMetError"
            ELSE "none"]_vars

\* C10 as claimed: complete_quest on an active quest moves it to
\* completed_quests, returns {xp, gold}, and leaves level, experience,
\* max_health, strength, health and gold as gain_experience(reward_xp) followed
\* by add_gold(reward_gold) leave them, so experience < level * 100.
C10_CompleteGrantsThroughProgression ==
    [][(result'.op = "complete_quest" /\ result'.raised = "none")
       => LET q == result'.id
              quest == QuestData[q]
              granted == gain_experience(character, quest.reward_xp)
              paid == add_gold(granted.c, quest.reward_gold)
          IN  /\ ~In(q, character'.active_quests)
              /\ In(q, character'.completed_quests)
              /\ result'.ret = [type |-> "dict", xp |-> quest.reward_xp,
                                gold |-> quest.reward_gold]
              /\ \A f \in {"level", "experience", "max_health", "strength",
                           "health", "gold"} : character'[f] = paid.c[f]
              /\ character'.experience < character'.level * 100]_vars

\* C11: abandon_quest on a quest that is not active raises
\* QuestNotActiveError and changes nothing; on an active quest it removes the
\* quest from active_quests and changes nothing else, so abandoning the quest
\* just accepted gives back the quest lists from before the accept, and
\* accept_quest on it succeeds again.
C11_AbandonUndoesAccept ==
    [][result'.op = "abandon_quest"
       => LET q == result'.id
              active == character.active_quests
          IN  IF ~In(q, active)
              THEN /\ result'.raised = "QuestNotActiveError"
                   /\ character' = character
              ELSE /\ result'.raised = "none"
                   /\ ~In(q, character'.active_quests)
                   /\ character' = [character EXCEPT
                                       !.active_quests = ListRemove(active, q)]
                   /\ (/\ result.op = "accept_quest"
                       /\ result.raised = "none"
                       /\ result.id = q)
                      => (/\ character'.active_quests
                               = SubSeq(active, 1, Len(active) - 1)
                          /\ accept_quest(character', q, QuestData).raised
                               = "none")]_vars

\* C11 witness: the quest just abandoned was not the only active one and is
\* not completed.
C11_Witness ==
    /\ result.op = "abandon_quest"
    /\ result.raised = "none"
    /\ Len(character.active_quests) >= 1
    /\ ~In(result.id, character.completed_quests)
    /\ ~In(result.id, character.active_quests)

\* C12: get_available_quests returns the catalog quests that are not
\* completed, not active, within the character's level and whose prerequisite
\* is unset or completed, each once and no other; these are the quests for
\* which can_accept_quest returns True and accept_quest would succeed; both
\* queries leave the character as it is.
C12_AvailableIsAcceptable ==
    [][LET Eligible(q) ==
               /\ ~In(q, character.completed_quests)
               /\ ~In(q, character.active_quests)
               /\ character.level >= QuestData[q].required_level
               /\ \/ QuestData[q].prerequisite = "NONE"
                  \/ In(QuestData[q].prerequisite, character.completed_quests)
           eligible == {q \in DOMAIN QuestData : Eligible(q)}
       IN  /\ result'.op = "get_available_quests"
              => LET list == result'.ret.list IN
                 /\ result'.raised = "none"
                 /\ character' = character
                 /\ {list[i] : i \in 1..Len(list)} = {QuestData[q] : q \in eligible}
                 /\ Len(list) = Cardinality(eligible)
                 /\ \A q \in QuestIds :
                        /\ q \in eligible
                           <=> can_accept_quest(character, q, QuestData).ret = Bool(TRUE)
                        /\ q \in eligible
                           <=> accept_quest(character, q, QuestData).raised = "none"
           /\ result'.op = "can_accept_quest"
              => /\ result'.raised = "none"
                 /\ character' = character
                 /\ result'.ret = Bool(result'.id \in eligible)]_vars

\* C12 witness: the board of a character past the first quest offers the
\* quest that depends on it, and not the one already completed.
C12_Witness ==
    /\ result.op = "get_available_quests"
    /\ In("first_quest", character.completed_quests)
    /\ result.ret.list = <<QuestData.goblin_trouble, QuestData.herb_run>>

\* C13: when the links from quest_id lead to a quest without prerequisite,
\* get_quest_prerequisite_chain returns, and the list returned ends with
\* quest_id, starts with a quest without prerequisite, and each element is
\* the prerequisite of the next (for a quest without prerequisite the list
\* is the quest alone); when quest_id or a link from it is not in the
\* catalog, it raises QuestNotFoundError.
C13_ChainEarliestFirst ==
    LET d == walk.quest_data_dict
        q == walk.quest_id
        chain == walk.chain
        RECURSIVE End(_, _)
        End(x, n) == IF n = 0 \/ x \notin DOMAIN d THEN x
                     ELSE End(d[x].prerequisite, n - 1)
        \* where the links from q end: "NONE", an identifier the catalog
        \* lacks, or (in a cycle) a quest of the catalog
        end == End(q, Cardinality(DOMAIN d))
        Finished == walk.pc \in {"returned", "raised"}
    IN  /\ [](end = "NONE"
              => /\ walk.pc # "raised"
                 /\ walk.pc = "returned"
                    => /\ Len(chain) >= 1
                       /\ chain[Len(chain)] = q
                       /\ d[chain[1]].prerequisite = "NONE"
                       /\ \A i \in 1..(Len(chain) - 1) :
                              d[chain[i + 1]].prerequisite = chain[i]
                       /\ d[q].prerequisite = "NONE" => chain = <<q>>)
        /\ [](end \notin DOMAIN d \cup {"NONE"}
              => /\ walk.pc # "returned"
                 /\ walk.pc = "raised" => walk.raised = "QuestNotFoundError")
        /\ (end \notin DOMAIN d) ~> Finished

\* C13 witness: a chain of three quests was returned.
C13_Witness ==
    /\ walk.pc = "returned"
    /\ Len(walk.chain) = 3
    /\ walk.chain[3] = walk.quest_id

\* C14 as claimed: get_quest_prerequisite_chain comes to an end (a return or
\* a raise) on every catalog.
C14_ChainTerminates == <>(walk.pc \in {"returned", "raised"})

\* C15: a call of gain_experience that raises the level by k has taken
\* level*100 off experience once for each level passed, added 10 to
\* max_health and 2 to strength k times, added 5 to magic and mana k times
\* for a Mage or Cleric and nothing for a Warrior or Rogue, and, when k >= 1,
\* left health at the new max_health; nothing else changes.
C15_LevelUpStep ==
    [][(result'.op = "gain_experience" /\ result'.raised = "none")
       => LET level == character.level
              k == character'.level - level
              \* level*100 + (level+1)*100 + ... + (level+k-1)*100
              thresholds == 100 * (k * level + (k * (k - 1)) \div 2)
              caster == character.class \in {"Mage", "Cleric"}
              grown == [character EXCEPT
                           !.level = level + k,
                           !.experience = @ + result'.amount - thresholds,
                           !.xp = character'.xp,
                           !.max_health = @ + 10 * k,
                           !.strength = @ + 2 * k,
                           !.magic = IF caster THEN @ + 5 * k ELSE @,
                           !.mana = IF caster THEN @ + 5 * k ELSE @,
                           !.health = IF k >= 1 THEN character.max_health + 10 * k
                                      ELSE @]
          IN  k >= 0 /\ character' = grown]_vars

\* C15 witness: a Mage gained two levels in one call.
C15_Witness ==
    /\ result.op = "gain_experience"
    /\ result.amount = 300
    /\ character.class = "Mage"
    /\ character.level = 3
    /\ character.magic = 110
    /\ character.health = 90

\* C16 as claimed: gain_experience returns a boolean, True exactly when the
\* call raised the level.
C16_ReturnsLevelledUp ==
    [][(result'.op = "gain_experience" /\ result'.raised = "none")
       => result'.ret = Bool(character'.level > character.level)]_vars

\* C17 as claimed: heal_character on a living character sets health to
\* min(max_health, health + amount) and returns new health minus old health;
\* on a dead character it changes nothing and returns the current health.
C17_HealReturnsDelta ==
    [][result'.op = "heal_character"
       => IF character.health <= 0
          THEN /\ character' = character
               /\ result'.ret = Num(character.health)
          ELSE /\ character' = [character EXCEPT !.health =
                                   Min(character.max_health, @ + result'.amount)]
               /\ result'.ret = Num(character'.health - character.health)]_vars

\* C18: purchase_item raises InsufficientResourcesError when gold < cost,
\* whatever the inventory holds, and InventoryFullError when gold suffices
\* and the inventory has no free slot, both leaving the character as it was;
\* otherwise it takes cost off gold and appends the item once.
C18_PurchaseChecksThenCharges ==
    [][result'.op = "purchase_item"
       => LET item_id == result'.id
              cost == ItemData[item_id].cost
          IN  IF character.gold < cost
              THEN /\ result'.raised = "InsufficientResourcesError"
                   /\ character' = character
              ELSE IF Len(character.inventory) >= MAX_INVENTORY_SIZE
              THEN /\ result'.raised = "InventoryFullError"
                   /\ character' = character
              ELSE /\ result'.raised = "none"
                   /\ character' = [character EXCEPT
                                       !.gold = @ - cost,
                                       !.inventory = Append(@, item_id)]]_vars

\* C18 witness: an item of cost 25 was refused to a character with 20 gold
\* whose inventory is full as well.
C18_Witness ==
    /\ result.op = "purchase_item"
    /\ result.raised = "InsufficientResourcesError"
    /\ result.id = "leather_armor"
    /\ character.gold = 20
    /\ Len(character.inventory) = MAX_INVENTORY_SIZE

\* C19: use_item raises ItemNotFoundError when the item is not in the
\* inventory and otherwise InvalidItemTypeError when it is not a consumable,
\* both leaving the character as it was; otherwise it adds the value of the
\* item's effect to the stat the effect names, health not beyond max_health
\* and any other stat without limit, and takes one occurrence of the item
\* out of the inventory.
C19_UseItemConsumesOne ==
    [][result'.op = "use_item"
       => LET item_id == result'.id
              inventory == character.inventory
              \* the effects the catalog's consumables spell out
              effect == [small_potion    |-> [stat |-> "health", value |-> 30],
                         strength_elixir |-> [stat |-> "strength", value |-> 3]]
          IN  IF ~In(item_id, inventory)
              THEN /\ result'.raised = "ItemNotFoundError"
                   /\ character' = character
              ELSE IF ItemData[item_id].type # "consumable"
              THEN /\ result'.raised = "InvalidItemTypeError"
                   /\ character' = character
              ELSE LET stat == effect[item_id].stat
                       value == effect[item_id].value
                   IN  /\ result'.raised = "none"
                       /\ \E i \in 1..Len(inventory) :
                              /\ inventory[i] = item_id
                              /\ character' = [character EXCEPT
                                    !.inventory =
                                        SubSeq(inventory, 1, i - 1)
                                            \o SubSeq(inventory, i + 1, Len(inventory)),
                                    ![stat] =
                                        IF stat = "health"
                                        THEN Min(character.max_health, @ + value)
                                        ELSE @ + value]]_vars

\* C19 witness: after an elixir, a potion was used that would have taken
\* health beyond max_health, and one potion is left.
C19_Witness ==
    /\ result.op = "use_item"
    /\ result.id = "small_potion"
    /\ result.raised = "none"
    /\ character.health = character.max_health
    /\ character.health > 30
    /\ character.strength = CHARACTER_CLASSES[character.class].strength + 3
    /\ character.inventory = <<"rusty_sword", "small_potion">>

\* C20: equip_weapon and equip_armor raise ItemNotFoundError when the item
\* is not in the inventory and otherwise InvalidItemTypeError when its type
\* is not the slot's, both leaving the character as it was; when they return,
\* the slot holds the item, the item's bonus has been added once (and the
\* bonus of the item the slot held taken off), and one occurrence of the item
\* has left the inventory, so that every item has as many copies in the
\* inventory and the slot together as before.
C20_EquipMovesOneCopy ==
    [][result'.op \in {"equip_weapon", "equip_armor"}
       => LET item_id == result'.id
              slot == IF result'.op = "equip_weapon" THEN "equipped_weapon"
                      ELSE "equipped_armor"
              type == IF result'.op = "equip_weapon" THEN "weapon" ELSE "armor"
              \* the strength bonuses the catalog's equipment spells out
              bonus == [rusty_sword |-> 5, leather_armor |-> 1]
              old == Get(character, slot, None)
              Count(list, x) == Cardinality({i \in 1..Len(list) : list[i] = x})
              Copies(c, x) == Count(c.inventory, x)
                                + IF Get(c, slot, None) = x THEN 1 ELSE 0
          IN  /\ ~In(item_id, character.inventory)
                 => /\ result'.raised = "ItemNotFoundError"
                    /\ character' = character
              /\ (In(item_id, character.inventory) /\ ItemData[item_id].type # type)
                 => /\ result'.raised = "InvalidItemTypeError"
                    /\ character' = character
              /\ result'.raised = "none"
                 => /\ In(item_id, character.inventory)
                    /\ ItemData[item_id].type = type
                    /\ character'[slot] = item_id
                    /\ character'.strength =
                          character.strength + bonus[item_id]
                            - IF old = None THEN 0 ELSE bonus[old]
                    /\ Len(character'.inventory) =
                          Len(character.inventory) - 1
                            + IF old = None THEN 0 ELSE 1
                    /\ \A x \in ItemIds : Copies(character', x) = Copies(character, x)
                    /\ \A f \in (DOMAIN character) \ {"strength", "inventory", slot} :
                          character'[f] = character[f]]_vars

\* C20 witness: a second sword was equipped in place of the first, which is
\* back in the inventory.
C20_Witness ==
    /\ result.op = "equip_weapon"
    /\ result.raised = "none"
    /\ character.equipped_weapon = "rusty_sword"
    /\ character.inventory = <<"leather_armor", "small_potion", "rusty_sword">>
    /\ character.strength = 15

\* C21 as claimed: equip_weapon and equip_armor on an occupied slot, when
\* they return, have taken off the bonus of the item the slot held and put
\* that item back into the inventory; when they raise InventoryFullError the
\* character is as it was before the call.
C21_EquipSwapIsAtomic ==
    [][result'.op \in {"equip_weapon", "equip_armor"}
       => LET slot == IF result'.op = "equip_weapon" THEN "equipped_weapon"
                      ELSE "equipped_armor"
              old == Get(character, slot, None)
              bonus == [rusty_sword |-> 5, leather_armor |-> 1]
          IN  old # None
              => /\ result'.raised = "none"
                    => /\ In(old, character'.inventory)
                       /\ character'.strength =
                             character.strength - bonus[old] + bonus[result'.id]
                 /\ result'.raised = "InventoryFullError"
                    => character' = character]_vars

\* C22 as claimed, for a character that carries the item catalog the
\* functions read: unequip_weapon and unequip_armor return None and change
\* nothing on an empty slot; with no free slot in the inventory they raise
\* InventoryFullError and change nothing; otherwise they take off the item's
\* bonus, append the item to the inventory, clear the slot and return the
\* item's identifier.
C22_UnequipIsAtomic ==
    [][(result'.op \in {"unequip_weapon", "unequip_armor"}
        /\ "item_data" \in DOMAIN character)
       => LET slot == IF result'.op = "unequip_weapon" THEN "equipped_weapon"
                      ELSE "equipped_armor"
              held == Get(character, slot, None)
              bonus == [rusty_sword |-> 5, leather_armor |-> 1]
          IN  IF held = None
              THEN /\ result'.raised = "none"
                   /\ result'.ret = NoneValue
                   /\ character' = character
              ELSE IF Len(character.inventory) >= MAX_INVENTORY_SIZE
              THEN /\ result'.raised = "InventoryFullError"
                   /\ character' = character
              ELSE /\ result'.raised = "none"
                   /\ result'.ret = Str(held)
                   /\ character' = [character EXCEPT
                                       !.strength = @ - bonus[held],
                                       !.inventory = Append(@, held),
                                       ![slot] = None]]_vars

\* C23: sell_item raises ItemNotFoundError and changes nothing when the item
\* is not in the inventory; otherwise it takes one occurrence of the item out
\* of the inventory, adds cost / 2 rounded down to gold and returns that
\* amount.
C23_SellAtHalfPrice ==
    [][result'.op = "sell_item"
       => LET item_id == result'.id
              inventory == character.inventory
              cost == ItemData[item_id].cost
              \* the largest integer whose double is at most cost
              half == CHOOSE h \in 0..cost : 2 * h <= cost /\ cost < 2 * (h + 1)
          IN  IF ~In(item_id, inventory)
              THEN /\ result'.raised = "ItemNotFoundError"
                   /\ character' = character
              ELSE /\ result'.raised = "none"
                   /\ result'.ret = Num(half)
                   /\ \E i \in 1..Len(inventory) :
                          /\ inventory[i] = item_id
                          /\ character' = [character EXCEPT
                                !.gold = @ + half,
                                !.inventory =
                                    SubSeq(inventory, 1, i - 1)
                                        \o SubSeq(inventory, i + 1, Len(inventory))]]_vars

\* C23 witness: a sword of cost 15 was sold for 7 gold and a second sword
\* is still held.
C23_Witness ==
    /\ result.op = "sell_item"
    /\ result.id = "rusty_sword"
    /\ result.ret = Num(7)
    /\ In("rusty_sword", character.inventory)

\* C24: start_battle with a living character and an enemy of positive health
\* returns, whatever the random rolls; what it returns names one of the
\* winners player, enemy and escaped, combat_active is False afterwards,
\* player is named only with the enemy's health at 0 and enemy only with the
\* character's health at 0.
C24_BattleEnds ==
    LET living == battle.entered.health > 0 /\ battle.pc # "idle" IN
    /\ [](living => battle.pc # "raised")
    /\ [](battle.pc = "returned"
          => /\ battle.ret.winner \in {"player", "enemy", "escaped"}
             /\ ~battle.combat_active
             /\ battle.ret.winner = "player" => battle.enemy.health = 0
             /\ battle.ret.winner = "enemy" => character.health = 0)
    /\ living ~> battle.pc = "returned"

\* C24 witness: a battle was left by escape after the enemy had been hit.
C24_Witness ==
    /\ battle.pc = "returned"
    /\ battle.ret.winner = "escaped"
    /\ battle.enemy.health < battle.enemy.max_health
    /\ character.health > 0

\* C25: the turns of a battle alternate, the player's first: the player
\* takes a turn only after as many enemy turns as player turns, the enemy
\* only after one player turn more; a turn is taken only while both are
\* alive and no escape has succeeded, so the enemy does not answer the turn
\* that took its health to 0; turn_counter goes up by 1 with each enemy turn
\* that leaves the battle on, and at no other time.
C25_TurnsAlternate ==
    [][LET player_moves == battle'.player_turns = battle.player_turns + 1
           enemy_moves == battle'.enemy_turns = battle.enemy_turns + 1
           on_before == /\ battle.enemy.health > 0
                        /\ character.health > 0
                        /\ battle.battle_end_state # "escaped"
           on_after == /\ battle'.enemy.health > 0
                       /\ character'.health > 0
                       /\ battle'.battle_end_state # "escaped"
       IN  /\ battle'.player_turns \in {battle.player_turns, battle.player_turns + 1}
           /\ battle'.enemy_turns \in {battle.enemy_turns, battle.enemy_turns + 1}
           /\ ~(player_moves /\ enemy_moves)
           /\ player_moves
              => /\ battle.player_turns = battle.enemy_turns
                 /\ on_before
                 /\ battle'.log.actor = "player"
           /\ enemy_moves
              => /\ battle.player_turns = battle.enemy_turns + 1
                 /\ on_before
                 /\ battle'.log.actor = "enemy"
           /\ ~(player_moves \/ enemy_moves)
              => /\ battle'.enemy.health = battle.enemy.health
                 /\ character'.health = character.health
           /\ battle'.turn_counter =
                 IF enemy_moves /\ on_after THEN battle.turn_counter + 1
                 ELSE battle.turn_counter]_vars

\* C25 witness: the player's turn of the fourth round took the enemy's
\* health to 0 and the enemy did not answer it.
C25_Witness ==
    /\ battle.pc = "returned"
    /\ battle.ret.winner = "player"
    /\ battle.turn_counter = 4
    /\ battle.player_turns = 4
    /\ battle.enemy_turns = 3
    /\ battle.log.actor = "player"

\* C26 as claimed: a basic attack, the player's or the enemy's, in any round,
\* deals max(1, attacker.strength - defender.strength // 4) and takes that
\* much off the defender's health, not below 0.
C26_BasicAttackDamage ==
    [][(/\ battle'.player_turns + battle'.enemy_turns
             = battle.player_turns + battle.enemy_turns + 1
        /\ battle'.log.action = "basic_attack")
       => LET by_player == battle'.log.actor = "player"
              attacker == IF by_player THEN character ELSE battle.enemy
              defender == IF by_player THEN battle.enemy ELSE character
              after == IF by_player THEN battle'.enemy ELSE character'
              damage == Max(1, attacker.strength - defender.strength \div 4)
          IN  /\ battle'.log.damage = damage
              /\ after.health = Max(0, defender.health - damage)]_vars

\* C27: a turn on which the special ability is used has the effect of the
\* class: a Warrior deals max(1, strength*2 - enemy.strength // 4), a Mage
\* max(1, magic*2 - enemy.strength // 4), a Rogue max(1, strength*3 -
\* enemy.strength // 4) or the damage of a basic attack, each taken off the
\* enemy's health and not below 0; a Cleric gains 30 health, capped at
\* max_health, and the enemy is untouched.
C27_AbilityEffects ==
    [][(/\ battle'.player_turns = battle.player_turns + 1
        /\ battle'.log.action \notin {"basic_attack", "escape"})
       => LET cls == character.class
              mitigation == battle.enemy.strength \div 4
              damage == battle'.log.damage
              ability == [Warrior |-> "warrior_power_strike",
                          Mage    |-> "mage_fireball",
                          Rogue   |-> "rogue_critical_strike",
                          Cleric  |-> "cleric_heal"]
          IN  /\ battle'.log.action = ability[cls]
              /\ cls = "Warrior"
                 => damage = Max(1, character.strength * 2 - mitigation)
              /\ cls = "Mage"
                 => damage = Max(1, character.magic * 2 - mitigation)
              /\ cls = "Rogue"
                 => damage \in {Max(1, character.strength * 3 - mitigation),
                                Max(1, character.strength - mitigation)}
              /\ cls # "Cleric"
                 => /\ battle'.enemy = [battle.enemy EXCEPT
                                           !.health = Max(0, @ - damage)]
                    /\ character'.health = character.health
              /\ cls = "Cleric"
                 => /\ damage = 0
                    /\ battle'.enemy = battle.enemy
                    /\ character' = [character EXCEPT !.health =
                                        Min(character.max_health, @ + 30)]]_vars

\* C27 witness: a Cleric below max_health has healed, by less than 30 for
\* the cap.
C27_Witness ==
    /\ battle.log.action = "cleric_heal"
    /\ battle.player_turns = battle.enemy_turns + 1
    /\ battle.log.round > 1
    /\ character.health = character.max_health

\* C28: the special ability is used exactly on the player turns that find
\* cooldown_remaining at 0, and sets it to the class's duration (Rogue 4, the
\* others 3); on the other player turns a basic attack is made; every enemy
\* turn that leaves the battle on takes 1 off a positive cooldown_remaining;
\* so cooldown_remaining stays within 0..duration and an ability used in
\* round r is used next in round r + duration.
C28_CooldownCycle ==
    [][LET duration == [Warrior |-> 3, Mage |-> 3, Rogue |-> 4, Cleric |-> 3]
           Duration(c) == duration[c.class]
       IN  /\ battle.cooldown_remaining \in 0..Duration(character)
           /\ battle'.cooldown_remaining \in 0..Duration(character')
           /\ (/\ battle'.player_turns = battle.player_turns + 1
               /\ battle'.log.action # "escape")
              => IF battle.cooldown_remaining = 0
                 THEN /\ battle'.log.action \notin {"basic_attack", "none"}
                      /\ battle'.cooldown_remaining = Duration(character)
                      /\ battle.ability_round # 0
                         => battle.turn_counter
                              = battle.ability_round + Duration(character)
                 ELSE /\ battle'.log.action = "basic_attack"
                      /\ battle'.cooldown_remaining = battle.cooldown_remaining
           /\ battle'.enemy_turns = battle.enemy_turns + 1
              => battle'.cooldown_remaining =
                   IF battle'.turn_counter = battle.turn_counter + 1
                   THEN Max(0, battle.cooldown_remaining - 1)
                   ELSE battle.cooldown_remaining]_vars

\* C28 witness: a Rogue has used the ability in round 1 and again in round 5.
C28_Witness ==
    /\ character.class = "Rogue"
    /\ battle.log.action = "rogue_critical_strike"
    /\ battle.log.round = 5
    /\ battle.cooldown_remaining = 4

\* C29: an escape is attempted only on a player turn that finds health at or
\* below a fifth of max_health; an escape that succeeds ends the turn with
\* the battle in the escaped state, neither side hit, and the battle is left
\* as escaped without another turn; on every other player turn the battle
\* does not become escaped and the player uses the ability or a basic
\* attack.
C29_EscapeWhenLow ==
    [][/\ battle'.player_turns = battle.player_turns + 1
          => /\ battle'.log.escape_attempted
                => character.health * 5 <= character.max_health
             /\ IF battle'.log.action = "escape"
                THEN /\ battle'.log.escape_attempted
                     /\ battle'.battle_end_state = "escaped"
                     /\ battle'.winner = "escaped"
                     /\ battle'.pc = "leave"
                     /\ battle'.enemy = battle.enemy
                     /\ character' = character
                ELSE /\ battle'.battle_end_state # "escaped"
                     /\ battle'.winner # "escaped"
                     /\ battle'.log.action
                           \in {"basic_attack", "warrior_power_strike",
                                "mage_fireball", "rogue_critical_strike",
                                "cleric_heal"}
       /\ battle.battle_end_state = "escaped"
          => /\ battle'.player_turns = battle.player_turns
             /\ battle'.enemy_turns = battle.enemy_turns
             /\ battle'.enemy = battle.enemy
             /\ battle'.pc = "returned"
             /\ battle'.ret.winner = "escaped"]_vars

\* C29 witness: an escape was attempted and failed, and the player attacked
\* on that turn.
C29_Witness ==
    /\ battle.log.actor = "player"
    /\ battle.log.escape_attempted
    /\ battle.log.action = "basic_attack"
    /\ battle.log.damage >= 1
    /\ battle.battle_end_state # "escaped"

\* C30: what start_battle returns holds the enemy's xp_reward and
\* gold_reward when the winner is player and 0 and 0 when it is enemy or
\* escaped; throughout the battle the character's gold, experience, xp and
\* level are those it entered with.
C30_RewardsReportedOnly ==
    LET reward == [goblin |-> [xp |-> 25, gold |-> 10],
                   orc    |-> [xp |-> 50, gold |-> 25],
                   dragon |-> [xp |-> 200, gold |-> 100]]
        won == battle.ret.winner = "player"
    IN  battle.pc # "idle"
        => /\ \A f \in {"gold", "experience", "xp", "level"} :
                  character[f] = battle.entered[f]
           /\ battle.pc = "returned"
              => /\ battle.ret.xp_gained =
                        IF won THEN reward[battle.enemy.type].xp ELSE 0
                 /\ battle.ret.gold_gained =
                        IF won THEN reward[battle.enemy.type].gold ELSE 0

\* C30 witness: a dragon was defeated and its rewards reported.
C30_Witness ==
    /\ battle.pc = "returned"
    /\ battle.ret = [winner |-> "player", xp_gained |-> 200, gold_gained |-> 100]
    /\ character.experience = 0

\* C31: start_battle on a character whose health is <= 0 raises
\* CharacterDeadError before any turn is taken: no player turn and no enemy
\* turn is entered and neither the character's nor the enemy's health
\* changes.
C31_DeadCannotStart ==
    LET dead == battle.pc # "idle" /\ battle.entered.health <= 0 IN
    /\ [](dead => /\ battle.pc \in {"new", "raised"}
                  /\ battle.pc = "raised" => battle.raised = "CharacterDeadError"
                  /\ battle.player_turns = 0
                  /\ battle.enemy_turns = 0
                  /\ battle.log = NoTurn
                  /\ character.health = battle.entered.health
                  /\ battle.enemy.health = battle.enemy.max_health)
    /\ dead ~> battle.pc = "raised"

\* C31 witness: start_battle raised for a character that entered dead.
C31_Witness ==
    /\ battle.pc = "raised"
    /\ battle.raised = "CharacterDeadError"
    /\ battle.entered.health <= 0
    /\ battle.enemy.health = 200

\* C32: a battle that ends with the character's health at 0 after the
\* enemy's turn returns the winner enemy with xp_gained 0 and gold_gained 0,
\* and a gain_experience call on that character while its health is still
\* <= 0 raises CharacterDeadError and leaves the character as it was.
C32_DefeatThenNoExperience ==
    [][/\ (/\ battle.pc = "leave"
           /\ battle.log.actor = "enemy"
           /\ character.health <= 0)
          => /\ battle'.pc = "returned"
             /\ battle'.ret = [winner |-> "enemy", xp_gained |-> 0,
                               gold_gained |-> 0]
       /\ (/\ battle.pc = "returned"
           /\ battle.ret.winner = "enemy"
           /\ character.health <= 0
           /\ UNCHANGED battle
           /\ result'.op = "gain_experience")
          => /\ result'.raised = "CharacterDeadError"
             /\ character' = character]_vars

\* C32 witness: the enemy's blow ended the battle and the gain_experience
\* call that followed raised.
C32_Witness ==
    /\ battle.pc = "returned"
    /\ battle.ret = [winner |-> "enemy", xp_gained |-> 0, gold_gained |-> 0]
    /\ battle.log.actor = "enemy"
    /\ character.health = 0
    /\ result.op = "gain_experience"
    /\ result.amount = 100
    /\ result.raised = "CharacterDeadError"
    /\ character.level = 1
    /\ character.xp = 0

\* C34 as claimed: after create_character and any calls of gain_experience
\* and complete_quest the fields xp and experience are equal, and a
\* gain_experience(a) that follows a complete_quest and raises no level
\* leaves experience at what complete_quest left plus a.
C34_ExperienceFieldsAgree ==
    [][/\ character'.xp = character'.experience
       /\ (/\ result.op = "complete_quest"
           /\ result.raised = "none"
           /\ result'.op = "gain_experience"
           /\ result'.raised = "none"
           /\ character'.level = character.level)
          => character'.experience = character.experience + result'.amount]_vars

\* C35 as claimed: a character whose health is <= 0 keeps health <= 0
\* through every operation but revive_character, which sets health to
\* max_health and returns True; on a living character revive_character
\* returns False and changes nothing.
C35_DeadUntilRevived ==
    [][/\ (character.health <= 0 /\ character'.health > 0)
          => /\ result'.op = "revive_character"
             /\ result'.ret = Bool(TRUE)
             /\ character'.health = character'.max_health
       /\ (result'.op = "revive_character" /\ character.health > 0)
          => /\ result'.ret = Bool(FALSE)
             /\ character' = character]_vars

\* C36 as claimed: once start_battle has returned or raised, in_battle is
\* false, so that can_character_fight(character) is health > 0: a character
\* for whom start_battle raised CharacterDeadError can fight once revived.
C36_FightableAfterBattle ==
    BattleOver
    => can_character_fight(character).ret = Bool(character.health > 0)

\* C40 as claimed: a start_battle called on a SimpleBattle that has ended
\* (its start_battle has returned, combat_active is False) takes no turn, leaves the health of
\* the character and of the enemy as they are, and returns a result or
\* raises one of the game's own errors.
C40_SecondStartIsDefined ==
    [][(battle'.ended /\ battle' # battle)
       => /\ character'.health = character.health
          /\ battle'.enemy = battle.enemy
          /\ battle'.player_turns = battle.player_turns
          /\ battle'.enemy_turns = battle.enemy_turns
          /\ battle'.log = NoTurn
          /\ battle'.pc = "raised"
             => battle'.raised \in {"CharacterDeadError",
                                    "CombatNotActiveError"}]_vars

\* C37 as claimed, for a character that carries the item catalog the
\* functions read: when equip_weapon or equip_armor has put an owned item
\* into an empty slot, the unequip of that slot that follows returns, leaves
\* the slot empty, gives every stat (health included) the value it had before
\* the equip, and gives the inventory the items it had before the equip.
C37_EquipThenUnequipRestores ==
    [][LET slot == IF result'.op = "equip_weapon" THEN "equipped_weapon"
                   ELSE "equipped_armor"
           Count(list, x) == Cardinality({i \in 1..Len(list) : list[i] = x})
       IN  (/\ result'.op \in {"equip_weapon", "equip_armor"}
            /\ result'.raised = "none"
            /\ ~Truthy(Get(character, slot, None))
            /\ Len(character.inventory) < MAX_INVENTORY_SIZE
            /\ "item_data" \in DOMAIN character)
           => LET u == Unequip(character', slot) IN
              /\ u.raised = "none"
              /\ ~Truthy(u.c[slot])
              /\ \A f \in (DOMAIN character) \ {"inventory", slot} :
                     u.c[f] = character[f]
              /\ \A x \in DOMAIN Armory :
                     Count(u.c.inventory, x) = Count(character.inventory, x)]_vars

\* C33 as claimed: a catalog that load_quests has returned holds, for every
\* quest, no prerequisite or a prerequisite that is a quest of the catalog,
\* and following the prerequisites from any quest comes to a quest without
\* one, so that no catalog with a dangling or cyclic prerequisite is in use
\* when the quest operations run.
C33_LoadedCatalogIsSound ==
    LET Prerequisite(q) == all_quests[q].prerequisite
        Resolves(q) == Prerequisite(q) = None
                          \/ Prerequisite(q) \in DOMAIN all_quests
        \* the quest n prerequisite links away, None when the links end before
        Back[n \in 0..Cardinality(DOMAIN all_quests)] ==
            [q \in DOMAIN all_quests |->
                IF n = 0 THEN q
                ELSE IF Back[n - 1][q] \notin DOMAIN all_quests THEN None
                ELSE Prerequisite(Back[n - 1][q])]
    IN  \A q \in DOMAIN all_quests :
            /\ Resolves(q)
            /\ Back[Cardinality(DOMAIN all_quests)][q] = None

\* C38 as claimed: a quest the loader has stored from 'PREREQUISITE: NONE'
\* counts as a quest without prerequisite: while the character meets its
\* level and has it neither active nor completed, accept_quest of it
\* returns and makes it active, get_available_quests lists it, and
\* get_quest_prerequisite_chain of it returns the list of that quest alone.
C38_LoadedNoneIsNoPrerequisite ==
    [][\A q \in DOMAIN all_quests :
         (/\ all_quests[q].prerequisite = None
          /\ all_quests' = all_quests
          /\ character.level >= all_quests[q].required_level
          /\ ~In(q, character.active_quests)
          /\ ~In(q, character.completed_quests))
         => /\ (result'.op = "accept_quest" /\ result'.id = q)
               => (result'.raised = "none" /\ In(q, character'.active_quests))
            /\ result'.op = "get_available_quests"
               => \E i \in 1..Len(result'.ret.list) :
                      result'.ret.list[i] = all_quests[q]
            /\ (walk.pc = "loop" /\ walk.quest_id = q
                /\ walk'.pc \in {"returned", "raised"})
               => (walk'.pc = "returned" /\ walk'.chain = <<q>>)]_vars

\* C39 as claimed: the effect of every item record load_items has returned
\* is one parse_item_effect turns into a stat and an integer, so that
\* use_item, equip_weapon and equip_armor of an owned loaded item of the
\* type the operation asks for do not raise InvalidItemTypeError.
C39_LoadedEffectParses ==
    [][\A i \in DOMAIN all_items :
         (/\ all_items' = all_items
          /\ In(i, character.inventory)
          /\ result'.id = i
          /\ \/ result'.op = "use_item" /\ all_items[i].type = "consumable"
             \/ result'.op = "equip_weapon" /\ all_items[i].type = "weapon"
             \/ result'.op = "equip_armor" /\ all_items[i].type = "armor")
         => /\ parse_item_effect(all_items[i].effect).raised = "none"
            /\ result'.raised # "InvalidItemTypeError"]_vars

====
